---- MODULE Spec2Model ----
(***************************************************************************)
(* Webhook ingestion and subscription-lifecycle reconciliation of the      *)
(* parking-admin Convex/Stripe integration.                                *)
(*                                                                         *)
(* Every Convex action (the webhook endpoint, the admin cancel action) is  *)
(* a task whose runQuery / runMutation / runAction calls are separate      *)
(* transactions: one model step per transaction.  Code that runs between   *)
(* two transactions touches only the task's own locals and is folded into  *)
(* the step of the transaction that follows it.                            *)
(*                                                                         *)
(* Timestamps are instants of the model clock `now`; new Date() of a       *)
(* mutation argument is read at the step that commits the mutation.  The   *)
(* bookkeeping columns startDate, createdAt and updatedAt, which no        *)
(* handler reads, are not modelled.                                        *)
(***************************************************************************)
EXTENDS Integers, Sequences, FiniteSets, TLC

\* The names of the fields of the model's records.  Every record lists its
\* fields in this order.
FieldNames ==
    DOMAIN [pc |-> 0, status |-> 0, seats |-> 0, stripeSubscriptionId |-> 0,
            userId |-> 0, garageId |-> 0, productId |-> 0, endDate |-> 0,
            priceId |-> 0, type |-> 0, id |-> 0, metadata |-> 0,
            quantity |-> 0, cancel_at_period_end |-> 0, canceled_at |-> 0,
            attempt_count |-> 0, data |-> 0, subscriptionId |-> 0,
            body |-> 0, kind |-> 0, signature |-> 0, doc |-> 0,
            success |-> 0, live |-> 0, result |-> 0, error |-> 0,
            isActive |-> 0, active |-> 0, stripeProductId |-> 0,
            stripePriceId |-> 0, amount |-> 0, productType |-> 0,
            recurring |-> 0, price |-> 0, request |-> 0, mode |-> 0]

\* ---------------------------------------------------------------- bounds
MaxSubs == 2
MaxClock == 2
MaxDeliveries == 2
MaxAttempt == 4
MaxSessions == 2

\* ---------------------------------------------------------------- values
\* endDate: v.union(v.string(), v.null()).  Null is the empty set, an ISO
\* date string of instant t is {t}; both are falsy/truthy as in the source.
Null == {}
Date(t) == {t}

\* stripeProductId / stripePriceId: v.union(v.string(), v.null()); the string
\* s of such a column is {s}.
Str(s) == {s}

\* An optional mutation argument (v.optional): undefined or a value.
Undefined == <<>>
Some(x) == <<x>>

\* A metadata key that is absent (undefined) or the empty string: falsy.
Missing == ""
Truthy(s) == s # Missing

\* parseInt's NaN, encoded as an integer no digit string of the model denotes.
NaN == 0 - 1000000

Users == {"u1"}
Garages == {"g1"}
Products == {"p1"}
PriceIds == {"r1", "r2"}
StripeIds == {"sub_A", "sub_B"}

\* ------------------------------------------------------------------ state
VARIABLES
    subscriptions,   \* the "subscriptions" table, in creation order; _id = index
    now,             \* the clock
    webhookSecret,   \* process.env.STRIPE_WEBHOOK_SECRET
    deliveries,      \* webhook requests, by connection slot: where each is
    remoteLive,      \* Stripe: the ids of the subscriptions that are live there
    adminCancel,     \* the admin cancelSubscription action in progress
    userCancel,      \* handleCancelSubscription of the user page in progress
    products,        \* the "products" table, by _id
    productPrices,   \* the "productPrices" table, by _id
    productSync,     \* scheduled createStripeProductInternal runs, by product
    priceSync,       \* scheduled createStripePriceInternal runs, by price
    checkout,        \* the createCheckoutSession action in progress
    sessions,        \* Stripe: the checkout sessions created there, in order
    stripePrices,    \* Stripe: the price created there for each local price
    updateJobs,      \* scheduled updateStripe{Product,Price}Internal runs
    stripeOutbox     \* Stripe: the "updated" events it has yet to send

webhookVars == <<now, webhookSecret, deliveries>>
cancelVars == <<remoteLive, adminCancel, userCancel>>
catalogVars ==
    <<products, productPrices, productSync, priceSync, checkout, sessions, stripePrices,
      updateJobs, stripeOutbox>>
vars == <<subscriptions, webhookVars, cancelVars, catalogVars>>

Slots == 1..MaxDeliveries
Idle == [pc |-> "idle"]
Returned == [pc |-> "returned"]
Responded(status) == [pc |-> "responded", status |-> status]

\* ------------------------------------------------------ pure: conversions
DigitVal(c) ==
    CASE c = "0" -> 0 [] c = "1" -> 1 [] c = "2" -> 2 [] c = "3" -> 3
      [] c = "4" -> 4 [] c = "5" -> 5 [] c = "6" -> 6 [] c = "7" -> 7
      [] c = "8" -> 8 [] c = "9" -> 9 [] OTHER -> 0 - 1

IsDigit(c) == DigitVal(c) >= 0

RECURSIVE DigitsPrefix(_, _, _)
\* The value of the longest run of decimal digits at the head of s, given the
\* value acc of the n digits already read; NaN when there is no digit.
DigitsPrefix(s, acc, n) ==
    IF s # <<>> /\ IsDigit(Head(s))
    THEN DigitsPrefix(Tail(s), 10 * acc + DigitVal(Head(s)), n + 1)
    ELSE IF n = 0 THEN NaN ELSE acc

\* parseInt(s) in radix 10 on a string given as its sequence of characters:
\* an optional sign, then digits up to the first other character.
ParseInt(s) ==
    IF s # <<>> /\ Head(s) = "-"
    THEN LET v == DigitsPrefix(Tail(s), 0, 0) IN IF v = NaN THEN NaN ELSE 0 - v
    ELSE IF s # <<>> /\ Head(s) = "+"
    THEN DigitsPrefix(Tail(s), 0, 0)
    ELSE DigitsPrefix(s, 0, 0)

DigitChar(n) ==
    CASE n = 0 -> "0" [] n = 1 -> "1" [] n = 2 -> "2" [] n = 3 -> "3"
      [] n = 4 -> "4" [] n = 5 -> "5" [] n = 6 -> "6" [] n = 7 -> "7"
      [] n = 8 -> "8" [] n = 9 -> "9"

RECURSIVE NumberToString(_)
\* n.toString() of a non-negative integer n, as its sequence of characters.
NumberToString(n) ==
    IF n < 10 THEN <<DigitChar(n)>>
    ELSE NumberToString(n \div 10) \o <<DigitChar(n % 10)>>

\* parseInt(metadata.seats || "1")
SeatsFromMetadataOneDigit(seats) ==
    ParseInt(IF seats = <<>> THEN <<"1">> ELSE <<Head(seats)>>)
SeatsFromMetadata(seats) == ParseInt(IF seats = <<>> THEN <<"1">> ELSE seats)

\* ------------------------------------------------------- pure: the store
RECURSIVE SelectIds(_, _, _)
SelectIds(rows, sid, i) ==
    IF i > Len(rows) THEN <<>>
    ELSE IF rows[i].stripeSubscriptionId = sid
         THEN <<i>> \o SelectIds(rows, sid, i + 1)
         ELSE SelectIds(rows, sid, i + 1)

\* The _ids of the rows whose stripeSubscriptionId is sid, in creation order.
findSubscriptionByStripeId(rows, sid) == SelectIds(rows, sid, 1)

\* ctx.db.insert("subscriptions", {...args, endDate: null})
InsertSubscription(rows, args) ==
    Append(rows, [seats |-> args.seats,
                  stripeSubscriptionId |-> args.stripeSubscriptionId,
                  userId |-> args.userId,
                  garageId |-> args.garageId,
                  productId |-> args.productId,
                  endDate |-> Null])

\* The `updates` object updateSubscriptionInDb patches the row with.
PatchInDb(row, args) ==
    [row EXCEPT !.endDate = IF args.endDate # Undefined THEN args.endDate[1] ELSE @,
                !.seats = IF args.seats # Undefined THEN args.seats[1] ELSE @]

\* updateSubscriptionStatus: ctx.db.patch(id, {endDate})
PatchStatus(row, endDate) == [row EXCEPT !.endDate = endDate]

\* ------------------------------------------------------- events (inputs)
NoMetadata ==
    [seats |-> <<>>, userId |-> Missing, garageId |-> Missing,
     productId |-> Missing, priceId |-> Missing]

CompleteMetadata ==
    [seats : {<<>>, <<"2">>}, userId : Users, garageId : Garages,
     productId : Products, priceId : PriceIds]

IncompleteMetadata ==
    {NoMetadata} \cup
    {[m EXCEPT !.userId = Missing] : m \in {x \in CompleteMetadata : x.seats = <<>>}}

\* The fields of event.data.object the handlers read.  quantity is
\* data.items.data[0].quantity, 0 when absent.
Payload(type, id, metadata, quantity, status, cape, canceledAt, attempt) ==
    [status |-> status, type |-> type, id |-> id, metadata |-> metadata,
     quantity |-> quantity, cancel_at_period_end |-> cape,
     canceled_at |-> canceledAt, attempt_count |-> attempt]

CreatedEvents ==
    {Payload("customer.subscription.created", s, m, 1, "active", FALSE, 0, 0) :
        s \in StripeIds, m \in CompleteMetadata \cup IncompleteMetadata}

UpdatedEvents ==
    {Payload("customer.subscription.updated", s, NoMetadata, q, st, c, t, 0) :
        s \in StripeIds, q \in {0, 2}, st \in {"active", "canceled"},
        c \in BOOLEAN, t \in 1..MaxClock}

DeletedEvents ==
    {Payload("customer.subscription.deleted", s, NoMetadata, 1, "canceled", FALSE, t, 0) :
        s \in StripeIds, t \in 1..MaxClock}

\* For an invoice the subscription id is data.subscription, kept in `id`.
InvoicePaymentFailedEvents ==
    {Payload("invoice.payment_failed", s, NoMetadata, 0, "open", FALSE, 0, a) :
        s \in StripeIds, a \in 1..MaxAttempt}

\* A checkout session: data.subscription is kept in `id`.
CheckoutCompletedEvents ==
    {Payload("checkout.session.completed", s, m, 0, "complete", FALSE, 0, 0) :
        s \in StripeIds, m \in {x \in CompleteMetadata : x.seats = <<"2">>}}

OtherEvents ==
    {Payload("payment_intent.succeeded", "pi_1", NoMetadata, 0, "succeeded", FALSE, 0, 0)}

Events ==
    CreatedEvents \cup UpdatedEvents \cup DeletedEvents
    \cup InvoicePaymentFailedEvents \cup CheckoutCompletedEvents \cup OtherEvents

\* Events of types the router has no case for; some name a subscription.
UnknownEvents ==
    OtherEvents \cup CheckoutCompletedEvents \cup
    {Payload("customer.subscription.paused", s, NoMetadata, 1, "paused", FALSE, 0, 0) :
        s \in StripeIds}

\* Metadata that lacks exactly one of the four required keys, or all of them.
SkippedMetadata ==
    {NoMetadata} \cup
    UNION {{[m EXCEPT !.userId = Missing], [m EXCEPT !.garageId = Missing],
            [m EXCEPT !.productId = Missing], [m EXCEPT !.priceId = Missing]} :
           m \in CompleteMetadata}

SkippedCreatedEvents ==
    {Payload("customer.subscription.created", s, m, 1, "active", FALSE, 0, 0) :
        s \in StripeIds, m \in SkippedMetadata}

\* ------------------------------------------- handlers, up to their query
\* !userId || !garageId || !productId || !priceId, negated
MetadataCompleteWithoutPriceId(metadata) ==
    /\ Truthy(metadata.userId)
    /\ Truthy(metadata.garageId)
    /\ Truthy(metadata.productId)
MetadataComplete(metadata) ==
    /\ Truthy(metadata.userId)
    /\ Truthy(metadata.garageId)
    /\ Truthy(metadata.productId)
    /\ Truthy(metadata.priceId)

\* existingSubscriptions.length > 0
AlreadyExistsNever(existing) == FALSE
AlreadyExists(existing) == Len(existing) > 0

handleSubscriptionCreated(data, rows) ==
    IF ~MetadataComplete(data.metadata) THEN Returned
    ELSE IF AlreadyExists(findSubscriptionByStripeId(rows, data.id)) THEN Returned
    ELSE [pc |-> "createSubscription",
          seats |-> SeatsFromMetadata(data.metadata.seats),
          stripeSubscriptionId |-> data.id,
          userId |-> data.metadata.userId,
          garageId |-> data.metadata.garageId,
          productId |-> data.metadata.productId]

\* The endDate of updateArgs: set only for a canceled subscription whose row
\* has no endDate yet.
UpdateArgsEndDateReactivating(data, subscription) ==
    IF data.status = "canceled" /\ subscription.endDate = Null
    THEN Some(Date(data.canceled_at))
    ELSE IF data.status = "active" THEN Some(Null) ELSE Undefined
UpdateArgsEndDate(data, subscription) ==
    IF data.status = "canceled" \/ data.cancel_at_period_end
    THEN IF data.status = "canceled" /\ subscription.endDate = Null
         THEN Some(Date(data.canceled_at)) ELSE Undefined
    ELSE Undefined

handleSubscriptionUpdatedAtPeriodEnd(data, rows) ==
    LET found == findSubscriptionByStripeId(rows, data.id) IN
    IF Len(found) = 0 THEN Returned
    ELSE [pc |-> "updateSubscriptionInDb",
          seats |-> IF data.quantity # 0 THEN Some(data.quantity) ELSE Undefined,
          endDate |-> IF data.status = "canceled" \/ data.cancel_at_period_end
                      THEN Some(Date(data.canceled_at)) ELSE Undefined,
          subscriptionId |-> found[1]]
handleSubscriptionUpdated(data, rows) ==
    LET found == findSubscriptionByStripeId(rows, data.id) IN
    IF Len(found) = 0 THEN Returned
    ELSE [pc |-> "updateSubscriptionInDb",
          seats |-> IF data.quantity # 0 THEN Some(data.quantity) ELSE Undefined,
          endDate |-> UpdateArgsEndDate(data, rows[found[1]]),
          subscriptionId |-> found[1]]

handleSubscriptionDeletedAlwaysPatches(data, rows) ==
    LET found == findSubscriptionByStripeId(rows, data.id) IN
    IF Len(found) = 0 THEN Returned
    ELSE [pc |-> "updateSubscriptionStatus",
          endDate |-> Date(data.canceled_at),
          subscriptionId |-> found[1]]
handleSubscriptionDeleted(data, rows) ==
    LET found == findSubscriptionByStripeId(rows, data.id) IN
    IF Len(found) = 0 THEN Returned
    ELSE IF rows[found[1]].endDate = Null
         THEN [pc |-> "updateSubscriptionStatus",
               endDate |-> Date(data.canceled_at),
               subscriptionId |-> found[1]]
         ELSE Returned

\* attemptCount >= 3
ShouldExpireLate(attemptCount) == attemptCount > 3
ShouldExpire(attemptCount) == attemptCount >= 3

handleInvoicePaymentFailed(data, rows) ==
    LET found == findSubscriptionByStripeId(rows, data.id) IN
    IF Len(found) = 0 THEN Returned
    ELSE IF ShouldExpire(data.attempt_count)
         THEN [pc |-> "expireSubscription.getSubscription",
               subscriptionId |-> found[1]]
         ELSE Returned

\* The event types handleStripeWebhook has a case for.
DispatchTable ==
    {"product.updated", "price.updated", "customer.subscription.created",
     "customer.subscription.updated", "customer.subscription.deleted",
     "invoice.payment_failed"}

\* The switch of handleStripeWebhook: the state of the request after the
\* handler's first query.  (The product.updated and price.updated cases write
\* the catalog tables only; no event of this model has these types.)
handleStripeWebhookDefaultDeletes(data, rows) ==
    IF data.type = "customer.subscription.created"
    THEN handleSubscriptionCreated(data, rows)
    ELSE handleSubscriptionDeleted(data, rows)
handleStripeWebhook(data, rows) ==
    CASE data.type = "customer.subscription.created" ->
            handleSubscriptionCreated(data, rows)
      [] data.type = "customer.subscription.updated" ->
            handleSubscriptionUpdated(data, rows)
      [] data.type = "customer.subscription.deleted" ->
            handleSubscriptionDeleted(data, rows)
      [] data.type = "invoice.payment_failed" ->
            handleInvoicePaymentFailed(data, rows)
      [] OTHER -> Returned

\* ------------------------------------------------- the webhook endpoint
NoSecret == ""
StripeSigningSecret == "whsec_stripe"
AttackerKey == "whsec_forged"

\* The stripe-signature header: absent, or the HMAC of a body under a key.
\* The HMAC is injective in both (no collisions, no forgery without the key).
NoSignature == <<>>
Hmac(body, key) == <<body, key>>

\* A request body: a JSON event envelope, JSON that is no event envelope,
\* or text that is not JSON.
EventBody(data) == [data |-> data, kind |-> "event"]
NotAnEventBody == [data |-> CHOOSE e \in OtherEvents : TRUE, kind |-> "not_event"]
MalformedBody == [data |-> CHOOSE e \in OtherEvents : TRUE, kind |-> "malformed"]

\* stripe.webhooks.constructEvent(body, signature, webhookSecret) returns.
constructEvent(body, signature, secret) ==
    signature = Hmac(body, secret) /\ body.kind # "malformed"

\* Lines 41-71: whether the request yields an `event` to hand to the router.
\* "verified" / "unverified": it does; "rejected": 400.
Verify(signature, body, secret) ==
    IF secret # NoSecret /\ signature # NoSignature
    THEN IF constructEvent(body, signature, secret) THEN "verified" ELSE "rejected"
    ELSE IF body.kind # "malformed" THEN "unverified" ELSE "rejected"

\* new Response(..., {status}): the request of slot d is answered.
Respond(d, status) == deliveries' = [deliveries EXCEPT ![d] = Responded(status)]

\* POST /stripe/webhook, up to the first query of the handler it routes to.
WebhookEndpoint(d, signature, body) ==
    /\ deliveries[d] = Idle
    /\ UNCHANGED <<subscriptions, now, webhookSecret, cancelVars, catalogVars>>
    /\ IF Verify(signature, body, webhookSecret) = "rejected"
       THEN Respond(d, 400)
       ELSE IF body.kind # "event"
       THEN Respond(d, 500)
       ELSE LET next == handleStripeWebhook(body.data, subscriptions) IN
            IF next = Returned
            THEN Respond(d, 200)
            ELSE deliveries' = [deliveries EXCEPT ![d] = next]

\* ------------------------------------------- handlers: their mutations
\* internal.webhooks.createSubscription, then the handler returns.
createSubscription(d) ==
    /\ deliveries[d].pc = "createSubscription"
    /\ Len(subscriptions) < MaxSubs
    /\ subscriptions' = InsertSubscription(subscriptions, deliveries[d])
    /\ Respond(d, 200)
    /\ UNCHANGED <<now, webhookSecret, cancelVars, catalogVars>>

\* internal.webhooks.updateSubscriptionInDb, then the handler returns.
updateSubscriptionInDb(d) ==
    /\ deliveries[d].pc = "updateSubscriptionInDb"
    /\ LET id == deliveries[d].subscriptionId IN
       subscriptions' =
           [subscriptions EXCEPT ![id] = PatchInDb(@, deliveries[d])]
    /\ Respond(d, 200)
    /\ UNCHANGED <<now, webhookSecret, cancelVars, catalogVars>>

\* internal.webhooks.updateSubscriptionStatus called by
\* handleSubscriptionDeleted, then the handler returns.
updateSubscriptionStatus(d) ==
    /\ deliveries[d].pc = "updateSubscriptionStatus"
    /\ LET id == deliveries[d].subscriptionId IN
       subscriptions' =
           [subscriptions EXCEPT ![id] = PatchStatus(@, deliveries[d].endDate)]
    /\ Respond(d, 200)
    /\ UNCHANGED <<now, webhookSecret, cancelVars, catalogVars>>

\* subscription.endDate === null
NotYetExpiredAlways(subscription) == TRUE
NotYetExpired(subscription) == subscription.endDate = Null

\* expireSubscription: its getSubscription query.
expireSubscriptionGet(d) ==
    /\ deliveries[d].pc = "expireSubscription.getSubscription"
    /\ IF NotYetExpired(subscriptions[deliveries[d].subscriptionId])
       THEN deliveries' =
                [deliveries EXCEPT ![d].pc = "expireSubscription.updateSubscriptionStatus"]
       ELSE Respond(d, 200)
    /\ UNCHANGED <<subscriptions, now, webhookSecret, cancelVars, catalogVars>>

\* expireSubscription: its updateSubscriptionStatus mutation, endDate = now.
expireSubscriptionPatch(d) ==
    /\ deliveries[d].pc = "expireSubscription.updateSubscriptionStatus"
    /\ LET id == deliveries[d].subscriptionId IN
       subscriptions' = [subscriptions EXCEPT ![id] = PatchStatus(@, Date(now))]
    /\ Respond(d, 200)
    /\ UNCHANGED <<now, webhookSecret, cancelVars, catalogVars>>

\* The store after the mutation a handler has prepared, the handler running
\* alone from its first query to its end at instant t.
Commit(next, rows, t) ==
    CASE next.pc = "createSubscription" -> InsertSubscription(rows, next)
      [] next.pc = "updateSubscriptionInDb" ->
            [rows EXCEPT ![next.subscriptionId] = PatchInDb(@, next)]
      [] next.pc = "updateSubscriptionStatus" ->
            [rows EXCEPT ![next.subscriptionId] = PatchStatus(@, next.endDate)]
      [] next.pc = "expireSubscription.getSubscription" ->
            IF NotYetExpired(rows[next.subscriptionId])
            THEN [rows EXCEPT ![next.subscriptionId] = PatchStatus(@, Date(t))]
            ELSE rows
      [] next.pc = "expireSubscription.updateSubscriptionStatus" ->
            [rows EXCEPT ![next.subscriptionId] = PatchStatus(@, Date(t))]
      [] OTHER -> rows

\* The request of slot d waits for a mutation of its handler.
MutationPending(d) ==
    deliveries[d].pc \in {"createSubscription", "updateSubscriptionInDb",
                          "updateSubscriptionStatus",
                          "expireSubscription.updateSubscriptionStatus"}

\* The mutation a handler awaits fails: nothing is committed, the handler's
\* catch logs and rethrows, handleStripeWebhook rethrows, and the endpoint's
\* catch answers 500.
MutationThrowsSwallowed(d) ==
    /\ MutationPending(d)
    /\ Respond(d, 200)
    /\ UNCHANGED <<subscriptions, now, webhookSecret, cancelVars, catalogVars>>
MutationThrows(d) ==
    /\ MutationPending(d)
    /\ Respond(d, 500)
    /\ UNCHANGED <<subscriptions, now, webhookSecret, cancelVars, catalogVars>>

\* handleStripeWebhook run alone on event `data` at instant t: the store it
\* leaves.
ProcessEvent(data, rows, t) == Commit(handleStripeWebhook(data, rows), rows, t)

\* Time passes.
Tick ==
    /\ now < MaxClock
    /\ now' = now + 1
    /\ UNCHANGED <<subscriptions, webhookSecret, deliveries, cancelVars, catalogVars>>

\* The sender has read the response of slot d; the slot is free again.
Close(d) ==
    /\ deliveries[d].pc = "responded"
    /\ deliveries' = [deliveries EXCEPT ![d] = Idle]
    /\ UNCHANGED <<subscriptions, now, webhookSecret, cancelVars, catalogVars>>

HandlerStep ==
    \E d \in Slots :
        \/ createSubscription(d)
        \/ updateSubscriptionInDb(d)
        \/ updateSubscriptionStatus(d)
        \/ expireSubscriptionGet(d)
        \/ expireSubscriptionPatch(d)
        \/ Close(d)

\* ------------------------------------------------------- cancellation
\* ctx.db.get / a by-id query on a missing document returns null.
NoDoc == [doc |-> "none"]
Deleted == [doc |-> "deleted"]
Exists(document) == document # NoDoc /\ document # Deleted

\* api.admin.getSubscriptionById
getSubscriptionById(rows, id) == IF id \in 1..Len(rows) THEN rows[id] ELSE NoDoc

\* What a call of the gateway's cancel operation returns.
CancelOk == [kind |-> "result", success |-> TRUE]
CancelError == [kind |-> "result", success |-> FALSE]
CancelRaise == [kind |-> "raise", success |-> FALSE]

\* api.stripe.cancelStripeSubscription(sid) against the remote state `live`:
\* the possible (result, remote state after) pairs.  It succeeds only on a
\* live subscription, which is then no longer live; it may return an error
\* result and change nothing; it may raise, the remote outcome unknown.
cancelStripeSubscription(sid, live) ==
    (IF sid \in live THEN {[live |-> live \ {sid}, result |-> CancelOk]} ELSE {})
    \cup {[live |-> live, result |-> CancelError]}
    \cup {[live |-> l, result |-> CancelRaise] : l \in {live, live \ {sid}}}

Threw(id, error) == [pc |-> "threw", subscriptionId |-> id, error |-> error]
TaskEnded(task) == task.pc \in {"idle", "returned", "threw", "alertSuccess", "alertError"}

\* admin createSubscription, for an active subscription: the user, garage and
\* product must exist (users and garages are never deleted).
adminCreateSubscription(u, g, prod, sid) ==
    /\ Len(subscriptions) < MaxSubs
    /\ Exists(products[prod])
    /\ subscriptions' = Append(subscriptions,
                               [seats |-> 1, stripeSubscriptionId |-> sid, userId |-> u,
                                garageId |-> g, productId |-> prod,
                                endDate |-> Null])
    /\ UNCHANGED <<webhookVars, cancelVars, catalogVars>>

\* admin updateSubscription: the row is patched with the given fields (the
\* mutation throws, changing nothing, when the row is missing).
adminUpdateSubscription(id, endDate, sid, seats) ==
    /\ getSubscriptionById(subscriptions, id) # NoDoc
    /\ subscriptions' =
           [subscriptions EXCEPT ![id].endDate = endDate,
                                 ![id].stripeSubscriptionId = sid,
                                 ![id].seats = seats]
    /\ UNCHANGED <<webhookVars, cancelVars, catalogVars>>

\* user subscribe: `demo_${Date.now()}`
DemoStripeId(t) == "demo_" \o ToString(t)

\* user subscribe: the first row of the user for this garage and product
\* whose endDate is null.
existingSubscription(rows, u, g, prod) ==
    LET hits == {i \in 1..Len(rows) :
                    /\ rows[i].userId = u
                    /\ rows[i].garageId = g
                    /\ rows[i].productId = prod
                    /\ rows[i].endDate = Null}
    IN IF hits = {} THEN NoDoc
       ELSE rows[CHOOSE i \in hits : \A j \in hits : i <= j]

\* user subscribe (a public mutation): it throws, changing nothing, when the
\* product is missing or inactive or an active subscription exists;
\* otherwise it inserts the row itself.
subscribe(u, g, prod, seats) ==
    /\ Len(subscriptions) < MaxSubs
    /\ Exists(products[prod])
    /\ products[prod].isActive
    /\ existingSubscription(subscriptions, u, g, prod) = NoDoc
    /\ subscriptions' = Append(subscriptions,
                               [seats |-> seats, stripeSubscriptionId |-> DemoStripeId(now), userId |-> u,
                                garageId |-> g,
                                productId |-> prod,
                                endDate |-> Null])
    /\ UNCHANGED <<webhookVars, cancelVars, catalogVars>>

\* admin updateSubscriptionEndDate: the table after the mutation (it throws,
\* changing nothing, when the row is missing).
PatchEndDate(rows, id, endDate) ==
    IF getSubscriptionById(rows, id) = NoDoc THEN rows
    ELSE [rows EXCEPT ![id].endDate = endDate]

\* admin cancelSubscription: the messages of the errors it throws.
NotFoundError == "Subscription not found"
StripeCancelError == "Failed to cancel subscription in Stripe"
RaisedError == "raised by cancelStripeSubscription"

\* admin cancelSubscription: `!result.success`
adminCancelFailedNever(result) == FALSE
adminCancelFailed(result) == ~result.success

\* admin cancelSubscription: its getSubscriptionById query.
adminCancelSubscriptionQuery(id) ==
    /\ TaskEnded(adminCancel)
    /\ LET subscription == getSubscriptionById(subscriptions, id) IN
       adminCancel' =
           IF subscription = NoDoc THEN Threw(id, NotFoundError)
           ELSE IF Truthy(subscription.stripeSubscriptionId)
           THEN [pc |-> "cancelStripeSubscription", stripeSubscriptionId |-> subscription.stripeSubscriptionId,
                 subscriptionId |-> id]
           ELSE [pc |-> "updateSubscriptionEndDate", subscriptionId |-> id]
    /\ UNCHANGED <<subscriptions, webhookVars, remoteLive, userCancel, catalogVars>>

\* admin cancelSubscription: the remote cancel returns outcome o.
adminCancelSubscriptionStripe(o) ==
    /\ adminCancel.pc = "cancelStripeSubscription"
    /\ o \in cancelStripeSubscription(adminCancel.stripeSubscriptionId, remoteLive)
    /\ remoteLive' = o.live
    /\ adminCancel' =
           IF o.result.kind = "raise"
           THEN Threw(adminCancel.subscriptionId, RaisedError)
           ELSE IF adminCancelFailed(o.result)
           THEN Threw(adminCancel.subscriptionId, StripeCancelError)
           ELSE [pc |-> "updateSubscriptionEndDate",
                 subscriptionId |-> adminCancel.subscriptionId]
    /\ UNCHANGED <<subscriptions, webhookVars, userCancel, catalogVars>>

\* admin cancelSubscription: its updateSubscriptionEndDate mutation.
adminCancelSubscriptionPatch ==
    /\ adminCancel.pc = "updateSubscriptionEndDate"
    /\ subscriptions' = PatchEndDate(subscriptions, adminCancel.subscriptionId, Date(now))
    /\ adminCancel' = [pc |-> "returned", subscriptionId |-> adminCancel.subscriptionId]
    /\ UNCHANGED <<webhookVars, remoteLive, userCancel, catalogVars>>

\* user cancelSubscription (mutation): whether it throws on row `subscription`.
userCancelThrows(subscription) ==
    subscription = NoDoc \/ subscription.endDate # Null

\* user cancelSubscription (mutation): the table after it.
userCancelSubscription(rows, id, t) ==
    IF userCancelThrows(getSubscriptionById(rows, id)) THEN rows
    ELSE [rows EXCEPT ![id].endDate = Date(t)]

\* UserPage handleCancelSubscription: `!stripeResult.success`
stripeResultFailed(result) == ~result.success

\* UserPage handleCancelSubscription for the selected row: the remote cancel
\* returns outcome o.
handleCancelSubscriptionStripe(id, o) ==
    /\ TaskEnded(userCancel)
    /\ id \in 1..Len(subscriptions)
    /\ o \in cancelStripeSubscription(subscriptions[id].stripeSubscriptionId, remoteLive)
    /\ remoteLive' = o.live
    /\ userCancel' =
           IF o.result.kind = "raise" \/ stripeResultFailed(o.result)
           THEN [pc |-> "alertError", subscriptionId |-> id]
           ELSE [pc |-> "cancelSubscription", subscriptionId |-> id]
    /\ UNCHANGED <<subscriptions, webhookVars, adminCancel, catalogVars>>

\* UserPage handleCancelSubscription: the cancelSubscription mutation.
handleCancelSubscriptionMutation ==
    /\ userCancel.pc = "cancelSubscription"
    /\ LET id == userCancel.subscriptionId IN
       /\ subscriptions' = userCancelSubscription(subscriptions, id, now)
       /\ userCancel' =
              IF userCancelThrows(getSubscriptionById(subscriptions, id))
              THEN [pc |-> "alertError", subscriptionId |-> id]
              ELSE [pc |-> "alertSuccess", subscriptionId |-> id]
    /\ UNCHANGED <<webhookVars, remoteLive, adminCancel, catalogVars>>

\* api.user.cancelSubscription called by a client on its own.
callUserCancelSubscription(id) ==
    /\ ~userCancelThrows(getSubscriptionById(subscriptions, id))
    /\ subscriptions' = userCancelSubscription(subscriptions, id, now)
    /\ UNCHANGED <<webhookVars, cancelVars, catalogVars>>

\* api.admin.updateSubscriptionEndDate called by a client on its own.
updateSubscriptionEndDate(id, t) ==
    /\ getSubscriptionById(subscriptions, id) # NoDoc
    /\ subscriptions' = PatchEndDate(subscriptions, id, Date(t))
    /\ UNCHANGED <<webhookVars, cancelVars, catalogVars>>

\* ------------------------------------------------ catalog and checkout
ProductTypes == {"monthly", "daily"}
Quantities == {2}

\* The ids Stripe gives the objects it creates for a local product or price.
NewStripeProductId == [p \in Products |-> "prod_" \o p]
NewStripePriceId == [r \in PriceIds |-> "price_" \o r]

NoJob == [pc |-> "none"]

\* The amount in cents the admin gives the prices of this model.
AdminAmount == 1500

\* ctx.scheduler.runAfter(0, internal.admin.updateStripeProductInternal, ...)
\* and the same for updateStripePriceInternal: the scheduled run.
UpdateJob(kind, id, isActive) == [id |-> id, kind |-> kind, isActive |-> isActive]

\* What Stripe sends once an update call has succeeded: product.updated or
\* price.updated, with the object's id and its active flag.
CatalogEvent(kind, id, active) ==
    [type |-> kind \o ".updated", id |-> id, active |-> active]

\* admin createProduct: `stripeProductId || null`, then the sync is scheduled
\* when no id was given.  The admin creates every product with isActive: true.
createProduct(p, type, stripeProductId) ==
    /\ products[p] = NoDoc
    /\ products' = [products EXCEPT ![p] =
                      [type |-> type, doc |-> "product", isActive |-> TRUE,
                       stripeProductId |->
                           IF stripeProductId # Undefined /\ Truthy(stripeProductId[1])
                           THEN Str(stripeProductId[1]) ELSE Null]]
    /\ productSync' =
           IF stripeProductId = Undefined \/ ~Truthy(stripeProductId[1])
           THEN [productSync EXCEPT ![p] = [pc |-> "createStripeProduct"]]
           ELSE productSync
    /\ UNCHANGED <<subscriptions, webhookVars, cancelVars,
                   productPrices, priceSync, checkout, sessions, stripePrices,
                   updateJobs, stripeOutbox>>

\* createStripeProductInternal: api.stripe.createStripeProduct returns
\* {success: true, stripeProductId} or {success: false, error}.
createStripeProductInternalAlwaysPatches(p, success) ==
    /\ productSync[p].pc = "createStripeProduct"
    /\ productSync' = [productSync EXCEPT ![p] =
                         [pc |-> "patchProductStripeId",
                          stripeProductId |->
                              IF success THEN NewStripeProductId[p] ELSE "undefined"]]
    /\ UNCHANGED <<subscriptions, webhookVars, cancelVars,
                   products, productPrices, priceSync, checkout, sessions, stripePrices,
                   updateJobs, stripeOutbox>>
createStripeProductInternal(p, success) ==
    /\ productSync[p].pc = "createStripeProduct"
    /\ productSync' = [productSync EXCEPT ![p] =
                         IF success
                         THEN [pc |-> "patchProductStripeId",
                               stripeProductId |-> NewStripeProductId[p]]
                         ELSE NoJob]
    /\ UNCHANGED <<subscriptions, webhookVars, cancelVars,
                   products, productPrices, priceSync, checkout, sessions, stripePrices,
                   updateJobs, stripeOutbox>>

\* createStripeProductInternal: its patchProductStripeId mutation (ctx.db.patch
\* throws on a deleted document).
patchProductStripeId(p) ==
    /\ productSync[p].pc = "patchProductStripeId"
    /\ products' = IF Exists(products[p])
                   THEN [products EXCEPT ![p].stripeProductId =
                                             Str(productSync[p].stripeProductId)]
                   ELSE products
    /\ productSync' = [productSync EXCEPT ![p] = NoJob]
    /\ UNCHANGED <<subscriptions, webhookVars, cancelVars,
                   productPrices, priceSync, checkout, sessions, stripePrices,
                   updateJobs, stripeOutbox>>

\* admin createProductPrice: `stripePriceId || null`; the sync is scheduled
\* when no id was given and the product has a Stripe id.
createProductPrice(r, p, stripePriceId) ==
    /\ productPrices[r] = NoDoc
    /\ Exists(products[p])
    /\ LET given == stripePriceId # Undefined /\ Truthy(stripePriceId[1]) IN
       /\ productPrices' = [productPrices EXCEPT ![r] =
                              [productId |-> p, doc |-> "price",
                               isActive |-> TRUE, stripePriceId |->
                                   IF given THEN Str(stripePriceId[1]) ELSE Null,
                               amount |-> AdminAmount]]
       /\ priceSync' =
              IF ~given /\ products[p].stripeProductId # Null
              THEN [priceSync EXCEPT ![r] = [pc |-> "createStripePrice",
                                             productType |-> products[p].type]]
              ELSE priceSync
    /\ UNCHANGED <<subscriptions, webhookVars, cancelVars,
                   products, productSync, checkout, sessions, stripePrices,
                   updateJobs, stripeOutbox>>

\* createStripePriceInternal: `recurring`, by the productType argument.
PriceRecurring(productType) ==
    IF productType = "monthly" \/ productType = "annual"
    THEN Some(IF productType = "monthly" THEN "month" ELSE "year")
    ELSE Undefined

\* createStripePriceInternal: api.stripe.createStripePrice, called with that
\* recurrence, returns {success: true, stripePriceId} or
\* {success: false, error}.
createStripePriceInternal(r, success) ==
    /\ priceSync[r].pc = "createStripePrice"
    /\ priceSync' = [priceSync EXCEPT ![r] =
                       IF success
                       THEN [pc |-> "patchProductPriceStripeId",
                             stripePriceId |-> NewStripePriceId[r]]
                       ELSE NoJob]
    /\ stripePrices' =
           IF success
           THEN [stripePrices EXCEPT ![r] =
                    [doc |-> "stripePrice",
                     recurring |-> PriceRecurring(priceSync[r].productType)]]
           ELSE stripePrices
    /\ UNCHANGED <<subscriptions, webhookVars, cancelVars,
                   products, productPrices, productSync, checkout, sessions,
                   updateJobs, stripeOutbox>>

\* createStripePriceInternal: its patchProductPriceStripeId mutation.
patchProductPriceStripeIdIfNull(r) ==
    /\ priceSync[r].pc = "patchProductPriceStripeId"
    /\ productPrices' = IF Exists(productPrices[r]) /\ productPrices[r].stripePriceId = Null
                        THEN [productPrices EXCEPT ![r].stripePriceId =
                                                      Str(priceSync[r].stripePriceId)]
                        ELSE productPrices
    /\ priceSync' = [priceSync EXCEPT ![r] = NoJob]
    /\ UNCHANGED <<subscriptions, webhookVars, cancelVars,
                   products, productSync, checkout, sessions, stripePrices,
                   updateJobs, stripeOutbox>>
patchProductPriceStripeId(r) ==
    /\ priceSync[r].pc = "patchProductPriceStripeId"
    /\ productPrices' = IF Exists(productPrices[r])
                        THEN [productPrices EXCEPT ![r].stripePriceId =
                                                      Str(priceSync[r].stripePriceId)]
                        ELSE productPrices
    /\ priceSync' = [priceSync EXCEPT ![r] = NoJob]
    /\ UNCHANGED <<subscriptions, webhookVars, cancelVars,
                   products, productSync, checkout, sessions, stripePrices,
                   updateJobs, stripeOutbox>>

\* api.admin.updateProduct, the mutation: the patch of `...updates` and of
\* `stripeProductId || product.stripeProductId`, then, when the product has
\* a Stripe id, updateStripeProductInternal is scheduled.
updateProductMutationIdOrNull(p, type, isActive, stripeProductId) ==
    /\ products' = [products EXCEPT
                      ![p].type = type,
                      ![p].isActive = isActive,
                      ![p].stripeProductId =
                          IF stripeProductId # Undefined /\ Truthy(stripeProductId[1])
                          THEN Str(stripeProductId[1]) ELSE Null]
    /\ updateJobs' = updateJobs
updateProductMutation(p, type, isActive, stripeProductId) ==
    LET final == IF stripeProductId # Undefined /\ Truthy(stripeProductId[1])
                 THEN Str(stripeProductId[1])
                 ELSE products[p].stripeProductId IN
    /\ products' = [products EXCEPT
                      ![p].type = type,
                      ![p].isActive = isActive,
                      ![p].stripeProductId = final]
    /\ updateJobs' =
           IF final # Null
           THEN updateJobs \cup
                   {UpdateJob("product", CHOOSE id \in final : TRUE, isActive)}
           ELSE updateJobs

\* admin updateProduct, called from the admin page.
updateProduct(p, type, isActive, stripeProductId) ==
    /\ Exists(products[p])
    /\ updateProductMutation(p, type, isActive, stripeProductId)
    /\ UNCHANGED <<subscriptions, webhookVars, cancelVars,
                   productPrices, productSync, priceSync, checkout, sessions,
                   stripePrices, stripeOutbox>>

\* api.admin.updateProductPrice, the mutation: the patch of `...updates` and
\* of `stripePriceId || price.stripePriceId`, then, when the price has a
\* Stripe id, updateStripePriceInternal is scheduled.
updateProductPriceMutation(r, amount, isActive, stripePriceId) ==
    LET final == IF stripePriceId # Undefined /\ Truthy(stripePriceId[1])
                 THEN Str(stripePriceId[1])
                 ELSE productPrices[r].stripePriceId IN
    /\ productPrices' = [productPrices EXCEPT
                           ![r].amount = amount,
                           ![r].isActive = isActive,
                           ![r].stripePriceId = final]
    /\ updateJobs' =
           IF final # Null
           THEN updateJobs \cup
                   {UpdateJob("price", CHOOSE id \in final : TRUE, isActive)}
           ELSE updateJobs

\* admin updateProductPrice, called from the admin page.
updateProductPrice(r, amount, isActive, stripePriceId) ==
    /\ Exists(productPrices[r])
    /\ updateProductPriceMutation(r, amount, isActive, stripePriceId)
    /\ UNCHANGED <<subscriptions, webhookVars, cancelVars,
                   products, productSync, priceSync, checkout, sessions,
                   stripePrices, stripeOutbox>>

\* updateStripeProductInternal / updateStripePriceInternal: the update call
\* to Stripe returns {success: true} or {success: false, error}; after a
\* successful update Stripe has an "updated" event to send.
updateStripeInternal(job, success) ==
    /\ job \in updateJobs
    /\ updateJobs' = updateJobs \ {job}
    /\ stripeOutbox' =
           IF success
           THEN stripeOutbox \cup {CatalogEvent(job.kind, job.id, job.isActive)}
           ELSE stripeOutbox
    /\ UNCHANGED <<subscriptions, webhookVars, cancelVars,
                   products, productPrices, productSync, priceSync, checkout,
                   sessions, stripePrices>>

\* ------------------------------------- webhook: product and price events
\* api.webhooks.findProductByStripeId / findPriceByStripeId
findProductByStripeId(prods, id) ==
    {p \in Products : Exists(prods[p]) /\ prods[p].stripeProductId = Str(id)}
findPriceByStripeId(prices, id) ==
    {r \in PriceIds : Exists(prices[r]) /\ prices[r].stripePriceId = Str(id)}

\* The placeholders updateProductFromStripe and updatePriceFromStripe pass
\* for the fields the mutations require.
PlaceholderType == "monthly"
PlaceholderAmount == 0

\* The endpoint and the router for a product.updated or price.updated event
\* signed by Stripe: handleProductUpdated / handlePriceUpdated run their
\* query; with no match they return, else they call the update helper for
\* the first match (the tables' order is not kept: any match).
CatalogWebhookEndpoint(d, e) ==
    /\ deliveries[d] = Idle
    /\ e \in stripeOutbox
    /\ stripeOutbox' = stripeOutbox \ {e}
    /\ IF Verify(Hmac(EventBody(e), StripeSigningSecret), EventBody(e), webhookSecret) = "rejected"
       THEN Respond(d, 400)
       ELSE LET found == IF e.type = "product.updated"
                         THEN findProductByStripeId(products, e.id)
                         ELSE findPriceByStripeId(productPrices, e.id) IN
            IF found = {}
            THEN Respond(d, 200)
            ELSE \E x \in found :
                    deliveries' = [deliveries EXCEPT ![d] =
                        [pc |-> IF e.type = "product.updated"
                                THEN "updateProductFromStripe"
                                ELSE "updatePriceFromStripe",
                         id |-> x, isActive |-> e.active]]
    /\ UNCHANGED <<subscriptions, now, webhookSecret, cancelVars,
                   products, productPrices, productSync, priceSync, checkout,
                   sessions, stripePrices, updateJobs>>

\* handleProductUpdated: ctx.runMutation(internal.webhooks.updateProductFromStripe).
\* The helper is registered as an internalAction: the runtime either rejects
\* the call, and the error reaches the endpoint (500), or runs the helper,
\* whose api.admin.updateProduct throws when the product is gone.
updateProductFromStripe(d, accepted) ==
    /\ deliveries[d].pc = "updateProductFromStripe"
    /\ LET p == deliveries[d].id IN
       IF accepted /\ Exists(products[p])
       THEN /\ updateProductMutation(p, PlaceholderType, deliveries[d].isActive, Undefined)
            /\ Respond(d, 200)
       ELSE /\ Respond(d, 500)
            /\ UNCHANGED <<products, updateJobs>>
    /\ UNCHANGED <<subscriptions, now, webhookSecret, cancelVars,
                   productPrices, productSync, priceSync, checkout, sessions,
                   stripePrices, stripeOutbox>>

\* handlePriceUpdated: ctx.runMutation(internal.webhooks.updatePriceFromStripe),
\* in the same way, with api.admin.updateProductPrice.
updatePriceFromStripe(d, accepted) ==
    /\ deliveries[d].pc = "updatePriceFromStripe"
    /\ LET r == deliveries[d].id IN
       IF accepted /\ Exists(productPrices[r])
       THEN /\ updateProductPriceMutation(r, PlaceholderAmount, deliveries[d].isActive,
                                          Undefined)
            /\ Respond(d, 200)
       ELSE /\ Respond(d, 500)
            /\ UNCHANGED <<productPrices, updateJobs>>
    /\ UNCHANGED <<subscriptions, now, webhookSecret, cancelVars,
                   products, productSync, priceSync, checkout, sessions,
                   stripePrices, stripeOutbox>>

\* patchProductStripeId and patchProductPriceStripeId are exported as
\* `mutation`: a client calls them with an id of its choice.
callPatchProductStripeId(p, id) ==
    /\ Exists(products[p])
    /\ products' = [products EXCEPT ![p].stripeProductId = Str(id)]
    /\ UNCHANGED <<subscriptions, webhookVars, cancelVars,
                   productPrices, productSync, priceSync, checkout, sessions, stripePrices,
                   updateJobs, stripeOutbox>>

callPatchProductPriceStripeId(r, id) ==
    /\ Exists(productPrices[r])
    /\ productPrices' = [productPrices EXCEPT ![r].stripePriceId = Str(id)]
    /\ UNCHANGED <<subscriptions, webhookVars, cancelVars,
                   products, productSync, priceSync, checkout, sessions, stripePrices,
                   updateJobs, stripeOutbox>>

\* admin deleteProduct: `subscriptions.length > 0` for the rows whose
\* productId is the product's.
HasSubscriptionsActiveOnly(rows, p) ==
    \E i \in 1..Len(rows) : rows[i].productId = p /\ rows[i].endDate = Null
HasSubscriptions(rows, p) ==
    \E i \in 1..Len(rows) : rows[i].productId = p

\* admin deleteProduct: refused while a subscription refers to the product;
\* deletes the product's prices, then the product.
deleteProduct(p) ==
    /\ Exists(products[p])
    /\ ~HasSubscriptions(subscriptions, p)
    /\ productPrices' =
           [r \in PriceIds |->
               IF Exists(productPrices[r]) /\ productPrices[r].productId = p
               THEN Deleted ELSE productPrices[r]]
    /\ products' = [products EXCEPT ![p] = Deleted]
    /\ UNCHANGED <<subscriptions, webhookVars, cancelVars,
                   productSync, priceSync, checkout, sessions, stripePrices,
                   updateJobs, stripeOutbox>>

\* admin deleteProductPrice
deleteProductPrice(r) ==
    /\ Exists(productPrices[r])
    /\ productPrices' = [productPrices EXCEPT ![r] = Deleted]
    /\ UNCHANGED <<subscriptions, webhookVars, cancelVars,
                   products, productSync, priceSync, checkout, sessions, stripePrices,
                   updateJobs, stripeOutbox>>

\* createCheckoutSession: the messages of the errors it throws.
InvalidError == "Invalid price, product, user, or garage"
NoStripePriceIdError == "This price doesn't have a Stripe price ID. Please contact support."

\* createCheckoutSession: `!price || !product || !user || !garage` (no
\* operation deletes a user or a garage).
InvalidCheckout(price, product) == ~Exists(price) \/ ~Exists(product)

\* createCheckoutSession: `!price.stripePriceId`
NoStripePriceIdNever(price) == FALSE
NoStripePriceId(price) == price.stripePriceId = Null

\* createCheckoutSession: the `mode` of the session.
CheckoutModeWithoutWeekly(product) ==
    IF product.type \in {"monthly", "annual"} THEN "subscription" ELSE "payment"
CheckoutMode(product) ==
    IF product.type \in {"monthly", "annual", "weekly"} THEN "subscription" ELSE "payment"

\* createCheckoutSession: its getPrice query.
createCheckoutSessionGetPrice(r, p, u, g, q) ==
    /\ TaskEnded(checkout)
    /\ checkout' = [pc |-> "getProduct", userId |-> u, garageId |-> g,
                    productId |-> p, priceId |-> r, quantity |-> q,
                    price |-> productPrices[r]]
    /\ UNCHANGED <<subscriptions, webhookVars, cancelVars,
                   products, productPrices, productSync, priceSync, sessions, stripePrices,
                   updateJobs, stripeOutbox>>

\* createCheckoutSession: its getProduct, getUser and getGarage queries, then
\* the two precondition checks.
createCheckoutSessionGetProduct ==
    /\ checkout.pc = "getProduct"
    /\ LET price == checkout.price
           product == products[checkout.productId] IN
       checkout' =
           IF InvalidCheckout(price, product)
           THEN [pc |-> "threw", error |-> InvalidError]
           ELSE IF NoStripePriceId(price)
           THEN [pc |-> "threw", error |-> NoStripePriceIdError]
           ELSE [pc |-> "sessions.create",
                 request |->
                    [metadata |->
                        [seats |-> NumberToString(checkout.quantity),
                         userId |-> checkout.userId,
                         garageId |-> checkout.garageId,
                         productId |-> checkout.productId,
                         priceId |-> checkout.priceId],
                     quantity |-> checkout.quantity,
                     price |-> price.stripePriceId,
                     mode |-> CheckoutMode(product)]]
    /\ UNCHANGED <<subscriptions, webhookVars, cancelVars,
                   products, productPrices, productSync, priceSync, sessions, stripePrices,
                   updateJobs, stripeOutbox>>

\* createCheckoutSession: stripe.checkout.sessions.create returns or throws;
\* the action returns {success: true, ...} or {success: false, error}.
createCheckoutSessionCreateProvisional(success) ==
    /\ checkout.pc = "sessions.create"
    /\ Len(sessions) < MaxSessions
    /\ sessions' = IF success THEN Append(sessions, checkout.request) ELSE sessions
    /\ checkout' = [pc |-> "returned", success |-> success]
    /\ subscriptions' =
          Append(subscriptions,
                 [seats |-> checkout.request.quantity,
                  stripeSubscriptionId |-> "pending",
                  userId |-> checkout.request.metadata.userId,
                  garageId |-> checkout.request.metadata.garageId, productId |-> checkout.request.metadata.productId,
                  endDate |-> Null])
    /\ UNCHANGED <<webhookVars, cancelVars,
                   products, productPrices, productSync, priceSync, stripePrices,
                   updateJobs, stripeOutbox>>
createCheckoutSessionCreate(success) ==
    /\ checkout.pc = "sessions.create"
    /\ Len(sessions) < MaxSessions
    /\ sessions' = IF success THEN Append(sessions, checkout.request) ELSE sessions
    /\ checkout' = [pc |-> "returned", success |-> success]
    /\ UNCHANGED <<subscriptions, webhookVars, cancelVars,
                   products, productPrices, productSync, priceSync, stripePrices,
                   updateJobs, stripeOutbox>>

\* seedAll: the types of its productConfigs.
SeedProductTypes == {"monthly", "weekly", "daily", "annual"}

\* seedAll, step 3: the product is created in Stripe, then inserted with the
\* id Stripe gave it.
seedProduct(p, type, isActive) ==
    /\ products[p] = NoDoc
    /\ products' = [products EXCEPT ![p] =
                      [type |-> type, doc |-> "product", isActive |-> isActive,
                       stripeProductId |-> Str(NewStripeProductId[p])]]
    /\ UNCHANGED <<subscriptions, webhookVars, cancelVars,
                   productPrices, productSync, priceSync, checkout, sessions, stripePrices,
                   updateJobs, stripeOutbox>>

\* seedAll, step 5: the amount in cents of the product's i-th price.
SeedAmount(type, i) ==
    (IF type = "monthly" THEN 15000
     ELSE IF type = "weekly" THEN 5000
     ELSE IF type = "daily" THEN 2000
     ELSE IF type = "annual" THEN 150000 ELSE 7500) * i

\* seedAll, step 5: `recurring`, by the product's type.
SeedRecurring(type) ==
    IF type = "monthly" THEN Some("month")
    ELSE IF type = "annual" THEN Some("year")
    ELSE IF type = "weekly" THEN Some("week")
    ELSE Undefined

\* seedAll, step 5: for a product that has a Stripe id the price is created
\* in Stripe, then inserted with the id Stripe gave it (or with null).
seedProductPrice(r, p) ==
    /\ productPrices[r] = NoDoc
    /\ Exists(products[p])
    /\ LET synced == products[p].stripeProductId # Null IN
       /\ stripePrices' =
              IF synced
              THEN [stripePrices EXCEPT ![r] =
                       [doc |-> "stripePrice",
                        recurring |-> SeedRecurring(products[p].type)]]
              ELSE stripePrices
       /\ productPrices' = [productPrices EXCEPT ![r] =
                              [productId |-> p, doc |-> "price",
                               isActive |-> TRUE,
                               stripePriceId |->
                                   IF synced THEN Str(NewStripePriceId[r]) ELSE Null,
                               amount |-> SeedAmount(products[p].type, 1)]]
    /\ UNCHANGED <<subscriptions, webhookVars, cancelVars,
                   products, productSync, priceSync, checkout, sessions,
                   updateJobs, stripeOutbox>>

\* ------------------------------------------------------- specification
\* Events signed by Stripe, delivered in any order and any number of times
\* to an endpoint whose signing secret is configured.
NoCancellation ==
    /\ remoteLive = StripeIds
    /\ adminCancel = Idle
    /\ userCancel = Idle

NoCatalog ==
    /\ products = [p \in Products |-> NoDoc]
    /\ productPrices = [r \in PriceIds |-> NoDoc]
    /\ productSync = [p \in Products |-> NoJob]
    /\ priceSync = [r \in PriceIds |-> NoJob]
    /\ checkout = Idle
    /\ sessions = <<>>
    /\ stripePrices = [r \in PriceIds |-> NoDoc]
    /\ updateJobs = {}
    /\ stripeOutbox = {}

Init ==
    /\ subscriptions = <<>>
    /\ now = 1
    /\ webhookSecret = StripeSigningSecret
    /\ deliveries = [d \in Slots |-> Idle]
    /\ NoCancellation
    /\ NoCatalog

\* The stripe-signature header Stripe sends with event e.
Signed(e) == Hmac(EventBody(e), StripeSigningSecret)

Deliver ==
    \E d \in Slots, e \in Events :
        WebhookEndpoint(d, Hmac(EventBody(e), StripeSigningSecret), EventBody(e))

Next == Deliver \/ HandlerStep \/ Tick

Spec == Init /\ [][Next]_vars

\* Requests of any origin, to an endpoint whose signing secret may or may
\* not be configured in the deployment's environment.
HttpEvents ==
    {Payload("customer.subscription.created", "sub_A",
             [seats |-> <<"2">>, userId |-> "u1", garageId |-> "g1",
              productId |-> "p1", priceId |-> "r1"], 1, "active", FALSE, 0, 0),
     Payload("customer.subscription.updated", "sub_A", NoMetadata, 2, "canceled", FALSE, 1, 0),
     Payload("customer.subscription.deleted", "sub_A", NoMetadata, 1, "canceled", FALSE, 1, 0),
     Payload("invoice.payment_failed", "sub_A", NoMetadata, 0, "open", FALSE, 0, 3)}
    \cup OtherEvents

HttpBodies == {EventBody(e) : e \in HttpEvents} \cup {NotAnEventBody, MalformedBody}

\* The header of a request carrying `body`: none; Stripe's signature of the
\* body; a signature made without Stripe's secret; Stripe's signature of
\* another body (the body was replaced after signing).
HttpSignatures(body) ==
    {NoSignature, Hmac(body, StripeSigningSecret), Hmac(body, AttackerKey)}
    \cup {Hmac(b, StripeSigningSecret) : b \in {EventBody(e) : e \in OtherEvents}}

HttpRequests ==
    {[body |-> b, signature |-> sig] : sig \in UNION {HttpSignatures(x) : x \in HttpBodies},
                                       b \in HttpBodies}

HttpInit ==
    /\ subscriptions = <<>>
    /\ now = 1
    /\ webhookSecret \in {NoSecret, StripeSigningSecret}
    /\ deliveries = [d \in Slots |-> Idle]
    /\ NoCancellation
    /\ NoCatalog

HttpDeliver ==
    \E d \in Slots, r \in HttpRequests : WebhookEndpoint(d, r.signature, r.body)

HttpNext == HttpDeliver \/ HandlerStep \/ Tick

HttpSpec == HttpInit /\ [][HttpNext]_vars

\* Cancellation requests of the admin page and the user page, and the two
\* public mutations that end a subscription, on subscriptions an admin
\* created; every id of StripeIds is a live subscription at Stripe at first.
CancelOutcomes ==
    {[live |-> l, result |-> res] :
        res \in {CancelOk, CancelError, CancelRaise}, l \in SUBSET StripeIds}

AdminCancel ==
    \/ \E id \in 1..MaxSubs : adminCancelSubscriptionQuery(id)
    \/ \E o \in CancelOutcomes : adminCancelSubscriptionStripe(o)
    \/ adminCancelSubscriptionPatch

UserCancel ==
    \/ \E id \in 1..MaxSubs, o \in CancelOutcomes : handleCancelSubscriptionStripe(id, o)
    \/ handleCancelSubscriptionMutation

DirectCall ==
    \/ \E id \in 1..MaxSubs : callUserCancelSubscription(id)
    \/ \E id \in 1..MaxSubs, t \in 1..MaxClock : updateSubscriptionEndDate(id, t)

CancelNext ==
    \/ \E p \in Products : createProduct(p, "monthly", Some("prod_ext"))
    \/ \E u \in Users, g \in Garages, p \in Products, sid \in StripeIds \cup {Missing} :
          adminCreateSubscription(u, g, p, sid)
    \/ AdminCancel
    \/ UserCancel
    \/ DirectCall
    \/ Tick

CancelSpec == Init /\ [][CancelNext]_vars

\* Cancellation requests of the admin page and the user page, and the
\* "subscription deleted" event Stripe sends for a subscription that has
\* been cancelled there.
DeliverCancelled(d, e) ==
    /\ e.id \notin remoteLive
    /\ WebhookEndpoint(d, Hmac(EventBody(e), StripeSigningSecret), EventBody(e))

CancelRaceNext ==
    \/ \E p \in Products : createProduct(p, "monthly", Some("prod_ext"))
    \/ \E u \in Users, g \in Garages, p \in Products, sid \in StripeIds :
          adminCreateSubscription(u, g, p, sid)
    \/ AdminCancel
    \/ UserCancel
    \/ \E d \in Slots, e \in DeletedEvents : DeliverCancelled(d, e)
    \/ \E d \in Slots : updateSubscriptionStatus(d)
    \/ \E d \in Slots : Close(d)
    \/ Tick

CancelRaceSpec == Init /\ [][CancelRaceNext]_vars

\* The catalog, its synchronisation to Stripe, and checkout.
CheckoutNext ==
    \/ \E p \in Products, type \in ProductTypes, id \in {Undefined, Some("prod_ext")} :
          createProduct(p, type, id)
    \/ \E p \in Products, success \in BOOLEAN : createStripeProductInternal(p, success)
    \/ \E p \in Products : patchProductStripeId(p)
    \/ \E r \in PriceIds, p \in Products, id \in {Undefined, Some("price_ext")} :
          createProductPrice(r, p, id)
    \/ \E r \in PriceIds, success \in BOOLEAN : createStripePriceInternal(r, success)
    \/ \E r \in PriceIds : patchProductPriceStripeId(r)
    \/ \E p \in Products : deleteProduct(p)
    \/ \E r \in PriceIds : deleteProductPrice(r)
    \/ \E r \in PriceIds, p \in Products, u \in Users, g \in Garages, q \in Quantities :
          createCheckoutSessionGetPrice(r, p, u, g, q)
    \/ createCheckoutSessionGetProduct
    \/ \E success \in BOOLEAN : createCheckoutSessionCreate(success)

CheckoutSpec == Init /\ [][CheckoutNext]_vars

\* Products of every cadence, created by the admin or by the seed, their
\* prices synchronised to Stripe, and checkout.
AllProductTypes == {"monthly", "weekly", "annual", "daily", "weekend"}

ModeNext ==
    \/ \E p \in Products, type \in AllProductTypes, id \in {Undefined, Some("prod_ext")} :
          createProduct(p, type, id)
    \/ \E p \in Products, type \in SeedProductTypes : seedProduct(p, type, TRUE)
    \/ \E p \in Products, success \in BOOLEAN : createStripeProductInternal(p, success)
    \/ \E p \in Products : patchProductStripeId(p)
    \/ \E r \in PriceIds, p \in Products : createProductPrice(r, p, Undefined)
    \/ \E r \in PriceIds, p \in Products : seedProductPrice(r, p)
    \/ \E r \in PriceIds, success \in BOOLEAN : createStripePriceInternal(r, success)
    \/ \E r \in PriceIds : patchProductPriceStripeId(r)
    \/ \E r \in PriceIds, p \in Products, u \in Users, g \in Garages, q \in Quantities :
          createCheckoutSessionGetPrice(r, p, u, g, q)
    \/ createCheckoutSessionGetProduct
    \/ \E success \in BOOLEAN : createCheckoutSessionCreate(success)

ModeSpec == Init /\ [][ModeNext]_vars

\* A catalog whose products and prices have Stripe ids; the admin
\* deactivates a product or a price (one update of each at most: nothing
\* activates it again); the update jobs run, Stripe sends its "updated"
\* events and the endpoint handles them.
adminDeactivatesProduct(p) ==
    /\ Exists(products[p])
    /\ products[p].isActive
    /\ updateProduct(p, products[p].type, FALSE, Undefined)

adminDeactivatesPrice(r) ==
    /\ Exists(productPrices[r])
    /\ productPrices[r].isActive
    /\ updateProductPrice(r, productPrices[r].amount, FALSE, Undefined)

SyncSystemStep ==
    \/ \E job \in [id : {"prod_ext", "price_ext"},
                   kind : {"product", "price"},
                   isActive : BOOLEAN], success \in BOOLEAN :
          updateStripeInternal(job, success)
    \/ \E d \in Slots, kind \in {"product", "price"},
          id \in {"prod_ext", "price_ext"}, active \in BOOLEAN :
          CatalogWebhookEndpoint(d, CatalogEvent(kind, id, active))
    \/ \E d \in Slots, accepted \in BOOLEAN : updateProductFromStripe(d, accepted)
    \/ \E d \in Slots, accepted \in BOOLEAN : updatePriceFromStripe(d, accepted)
    \/ \E d \in Slots : Close(d)

SyncNext ==
    \/ \E p \in Products, type \in ProductTypes : createProduct(p, type, Some("prod_ext"))
    \/ \E r \in PriceIds, p \in Products : createProductPrice(r, p, Some("price_ext"))
    \/ \E p \in Products : adminDeactivatesProduct(p)
    \/ \E r \in PriceIds : adminDeactivatesPrice(r)
    \/ SyncSystemStep

SyncSpec == Init /\ [][SyncNext]_vars

\* The scheduler runs every job, Stripe sends every event, and a handler
\* that has started goes on.
SyncFairSpec == Init /\ [][SyncNext]_vars /\ WF_vars(SyncSystemStep)

\* The admin's catalog and subscription mutations, the sync jobs they
\* schedule, and the public patch mutations.
CatalogNext ==
    \/ \E p \in Products, id \in {Undefined, Some("prod_ext")} :
          createProduct(p, "monthly", id)
    \/ \E p \in Products, id \in {Undefined, Some("prod_ext")} :
          updateProduct(p, "monthly", TRUE, id)
    \/ \E p \in Products, success \in BOOLEAN : createStripeProductInternal(p, success)
    \/ \E p \in Products : patchProductStripeId(p)
    \/ \E r \in PriceIds, p \in Products, id \in {Undefined, Some("price_ext")} :
          createProductPrice(r, p, id)
    \/ \E r \in PriceIds, id \in {Undefined, Some("price_ext")} :
          updateProductPrice(r, AdminAmount, TRUE, id)
    \/ \E r \in PriceIds, success \in BOOLEAN : createStripePriceInternal(r, success)
    \/ \E r \in PriceIds : patchProductPriceStripeId(r)
    \/ \E p \in Products : callPatchProductStripeId(p, "prod_client")
    \/ \E r \in PriceIds : callPatchProductPriceStripeId(r, "price_client")
    \/ \E p \in Products : deleteProduct(p)
    \/ \E r \in PriceIds : deleteProductPrice(r)
    \/ \E u \in Users, g \in Garages, p \in Products :
          adminCreateSubscription(u, g, p, "sub_A")
    \/ \E id \in 1..MaxSubs, ended \in BOOLEAN :
          adminUpdateSubscription(id, IF ended THEN Date(now) ELSE Null, "sub_A", 1)

CatalogSpec == Init /\ [][CatalogNext]_vars

\* The steps of the scheduled sync jobs: the scheduler runs every job it was
\* given (ctx.scheduler.runAfter(0, ...)), so these steps are weakly fair;
\* the admin and the clients are free to call their mutations or not.
SyncJobStep ==
    \/ \E p \in Products, success \in BOOLEAN : createStripeProductInternal(p, success)
    \/ \E p \in Products : patchProductStripeId(p)
    \/ \E r \in PriceIds, success \in BOOLEAN : createStripePriceInternal(r, success)
    \/ \E r \in PriceIds : patchProductPriceStripeId(r)

CatalogFairSpec == Init /\ [][CatalogNext]_vars /\ WF_vars(SyncJobStep)

\* Events whose mutation may fail.  Slot 1 takes one event, the
\* "subscription created" event of sub_A with complete metadata, which
\* Stripe sends again after every answer other than 200 and never after a
\* 200; slot 2 takes any creation or deletion event, any number of times.
RetriedEvent ==
    Payload("customer.subscription.created", "sub_A",
            [seats |-> <<"2">>, userId |-> "u1", garageId |-> "g1",
             productId |-> "p1", priceId |-> "r1"], 1, "active", FALSE, 0, 0)

DeliverRetried == WebhookEndpoint(1, Signed(RetriedEvent), EventBody(RetriedEvent))

\* Stripe has read a failure answer and is about to send the event again.
CloseFailed(d) == deliveries[d] = Responded(500) /\ Close(d)

DeliverCreatedOrDeleted ==
    \E e \in CreatedEvents \cup DeletedEvents :
        WebhookEndpoint(2, Signed(e), EventBody(e))

RetryNext ==
    \/ DeliverRetried
    \/ CloseFailed(1)
    \/ DeliverCreatedOrDeleted
    \/ Close(2)
    \/ \E d \in Slots : createSubscription(d)
    \/ \E d \in Slots : updateSubscriptionStatus(d)
    \/ \E d \in Slots : MutationThrows(d)

RetrySpec == Init /\ [][RetryNext]_vars

\* Stripe keeps sending the event until it is answered 200, the endpoint
\* takes every request, and the insert, however often it fails, succeeds in
\* the end.
RetryFairSpec ==
    /\ Init /\ [][RetryNext]_vars
    /\ WF_vars(DeliverRetried)
    /\ WF_vars(CloseFailed(1))
    /\ SF_vars(createSubscription(1))

\* Every path that writes a Subscription row: the creation events, the
\* user's subscribe, the admin's createSubscription and updateSubscription.
DeliverCreated ==
    \E d \in Slots, e \in CreatedEvents :
        WebhookEndpoint(d, Signed(e), EventBody(e))

CreationNext ==
    \/ \E p \in Products : createProduct(p, "monthly", Some("prod_ext"))
    \/ DeliverCreated
    \/ \E d \in Slots : createSubscription(d)
    \/ \E d \in Slots : Close(d)
    \/ \E u \in Users, g \in Garages, p \in Products : subscribe(u, g, p, 1)
    \/ \E u \in Users, g \in Garages, p \in Products, sid \in StripeIds :
          adminCreateSubscription(u, g, p, sid)
    \/ \E id \in 1..MaxSubs, ended \in BOOLEAN, sid \in StripeIds :
          adminUpdateSubscription(id, IF ended THEN Date(now) ELSE Null, sid, 1)
    \/ Tick

CreationSpec == Init /\ [][CreationNext]_vars

\* Events the router or its creation handler skips, sent to a store an admin
\* filled: slot 1 takes the events of unknown type, slot 2 the creation
\* events with incomplete metadata.
DeliverUnknown ==
    \E e \in UnknownEvents : WebhookEndpoint(1, Signed(e), EventBody(e))

DeliverSkippedCreated ==
    \E e \in SkippedCreatedEvents : WebhookEndpoint(2, Signed(e), EventBody(e))

SkipNext ==
    \/ \E p \in Products : createProduct(p, "monthly", Some("prod_ext"))
    \/ \E u \in Users, g \in Garages, p \in Products, sid \in StripeIds :
          adminCreateSubscription(u, g, p, sid)
    \/ \E id \in 1..MaxSubs, ended \in BOOLEAN, sid \in StripeIds :
          adminUpdateSubscription(id, IF ended THEN Date(now) ELSE Null, sid, 1)
    \/ DeliverUnknown
    \/ DeliverSkippedCreated
    \/ \E d \in Slots : Close(d)
    \/ Tick

SkipSpec == Init /\ [][SkipNext]_vars

\* Checkout next to the confirmation Stripe sends for a subscription: a
\* "subscription created" event of sub_A with complete metadata, taken by
\* slot 1.
ConfirmationEvents == {e \in CreatedEvents : e.id = "sub_A" /\ ~(e \in SkippedCreatedEvents)}

DeliverConfirmation ==
    \E e \in ConfirmationEvents : WebhookEndpoint(1, Signed(e), EventBody(e))

CheckoutFlowNext ==
    \/ CheckoutNext
    \/ DeliverConfirmation
    \/ createSubscription(1)
    \/ Close(1)

CheckoutFlowSpec == Init /\ [][CheckoutFlowNext]_vars

\* A purchase: the customer pays the session createCheckoutSession opened and
\* Stripe sends the two events of the purchase, each once.  The subscription
\* Stripe creates for session i has the id SessionSubscription(i) and no
\* metadata of its own: the request sets `metadata` on the session only.
SessionSubscription(i) == IF i = 1 THEN "sub_A" ELSE "sub_B"

PurchaseCheckoutCompletedEvent(i) ==
    Payload("checkout.session.completed", SessionSubscription(i),
            sessions[i].metadata, 0, "complete", FALSE, 0, 0)

PurchaseSubscriptionCreatedEvent(i) ==
    Payload("customer.subscription.created", SessionSubscription(i),
            NoMetadata, sessions[i].quantity, "active", FALSE, 0, 0)

\* Slot 1 takes the "checkout session completed" event of a paid session.
PurchaseCheckoutCompleted(i) ==
    /\ i \in 1..Len(sessions)
    /\ sessions[i].mode = "subscription"
    /\ WebhookEndpoint(1, Signed(PurchaseCheckoutCompletedEvent(i)),
                       EventBody(PurchaseCheckoutCompletedEvent(i)))

\* Slot 2 takes the "subscription created" event of a paid session.
PurchaseSubscriptionCreated(i) ==
    /\ i \in 1..Len(sessions)
    /\ sessions[i].mode = "subscription"
    /\ WebhookEndpoint(2, Signed(PurchaseSubscriptionCreatedEvent(i)),
                       EventBody(PurchaseSubscriptionCreatedEvent(i)))

PurchaseNext ==
    \/ CheckoutNext
    \/ \E i \in 1..MaxSessions : PurchaseCheckoutCompleted(i)
    \/ \E i \in 1..MaxSessions : PurchaseSubscriptionCreated(i)

PurchaseSpec == Init /\ [][PurchaseNext]_vars

\* Checkout with one-digit and two-digit quantities, next to "subscription
\* created" events of the session's subscription that carry the metadata of
\* the session, whole or without its seats value.
SeatQuantities == {2, 12}

SeatEvent(i) ==
    Payload("customer.subscription.created", SessionSubscription(i),
            sessions[i].metadata, sessions[i].quantity, "active", FALSE, 0, 0)

NoSeatEvent(i) ==
    Payload("customer.subscription.created", SessionSubscription(i),
            [sessions[i].metadata EXCEPT !.seats = <<>>],
            sessions[i].quantity, "active", FALSE, 0, 0)

DeliverSeatEvent(d, i) ==
    /\ i \in 1..Len(sessions)
    /\ WebhookEndpoint(d, Signed(SeatEvent(i)), EventBody(SeatEvent(i)))

DeliverNoSeatEvent(d, i) ==
    /\ i \in 1..Len(sessions)
    /\ WebhookEndpoint(d, Signed(NoSeatEvent(i)), EventBody(NoSeatEvent(i)))

SeatNext ==
    \/ \E p \in Products : createProduct(p, "monthly", Some("prod_ext"))
    \/ \E r \in PriceIds, p \in Products : createProductPrice(r, p, Some("price_ext"))
    \/ \E r \in PriceIds, p \in Products, u \in Users, g \in Garages, q \in SeatQuantities :
          createCheckoutSessionGetPrice(r, p, u, g, q)
    \/ createCheckoutSessionGetProduct
    \/ \E success \in BOOLEAN : createCheckoutSessionCreate(success)
    \/ \E d \in Slots, i \in 1..MaxSessions : DeliverSeatEvent(d, i)
    \/ \E d \in Slots, i \in 1..MaxSessions : DeliverNoSeatEvent(d, i)
    \/ \E d \in Slots : createSubscription(d)
    \/ \E d \in Slots : Close(d)

SeatSpec == Init /\ [][SeatNext]_vars

\* ------------------------------------------------------------- claims

\* What every step in which idle slot d takes a request satisfies (stated
\* apart, it spares evaluating the endpoint on the other steps).
Arrival(d) ==
    /\ deliveries[d] = Idle
    /\ now' = now
    /\ \A x \in Slots \ {d} : deliveries'[x] = deliveries[x]

\* The delivery of event e that slot d takes in this step.
Delivered(d, e) == WebhookEndpoint(d, Signed(e), EventBody(e))

RowsOf(rows, sid) == {i \in 1..Len(rows) : rows[i].stripeSubscriptionId = sid}

\* C1 (idempotent creation): a "subscription created" event with complete
\* metadata, delivered once no row has its id and no other creation of that id
\* is in flight, inserts exactly one row with that id; delivered again after
\* that, it is acknowledged with 200, inserts nothing and changes no row.
C1_IdempotentCreation ==
    [][\A d \in Slots :
         /\ Arrival(d) =>
              \A e \in CreatedEvents :
                 (/\ MetadataComplete(e.metadata)
                  /\ RowsOf(subscriptions, e.id) # {}
                  /\ Delivered(d, e))
                 => /\ subscriptions' = subscriptions
                    /\ deliveries'[d] = Responded(200)
         /\ (/\ createSubscription(d)
             /\ RowsOf(subscriptions, deliveries[d].stripeSubscriptionId) = {})
            => /\ Cardinality(RowsOf(subscriptions', deliveries[d].stripeSubscriptionId)) = 1
               /\ SubSeq(subscriptions', 1, Len(subscriptions)) = subscriptions
    ]_vars

\* C1 witness: two deliveries have been answered with 200 and the store holds
\* one row, that of sub_A.
C1_Witness ==
    /\ Cardinality(RowsOf(subscriptions, "sub_A")) = 1
    /\ Len(subscriptions) = 1
    /\ \A d \in Slots : deliveries[d] = Responded(200)

\* C2 (monotonic end-date latch): no step of any webhook delivery, in any
\* interleaving, changes a non-null endDate back to null.
C2_EndDateLatch ==
    [][\A i \in 1..Len(subscriptions) :
         subscriptions[i].endDate # Null =>
            /\ i <= Len(subscriptions')
            /\ subscriptions'[i].endDate # Null]_vars

\* C2 witness: an update of a row that has ended is about to be written.
C2_Witness ==
    \E d \in Slots :
        /\ deliveries[d].pc = "updateSubscriptionInDb"
        /\ subscriptions[deliveries[d].subscriptionId].endDate # Null

\* C3 (grace period boundary): an "invoice payment failed" event for a row
\* whose endDate is null leaves the store as it is and ends the handler when
\* attempt_count < 3; when attempt_count >= 3 it calls expireSubscription,
\* which, finding the endDate still null, sets it to a non-null value and
\* changes nothing else.
C3_GracePeriodBoundary ==
    [][\A d \in Slots :
         /\ Arrival(d) =>
              \A e \in InvoicePaymentFailedEvents :
                 LET found == findSubscriptionByStripeId(subscriptions, e.id) IN
                 (/\ found # <<>>
                  /\ subscriptions[found[1]].endDate = Null
                  /\ Delivered(d, e))
                 => /\ subscriptions' = subscriptions
                    /\ IF e.attempt_count < 3
                       THEN deliveries'[d] = Responded(200)
                       ELSE deliveries'[d] =
                               [pc |-> "expireSubscription.getSubscription",
                                subscriptionId |-> found[1]]
         /\ (/\ deliveries[d].pc = "expireSubscription.getSubscription"
             /\ subscriptions[deliveries[d].subscriptionId].endDate = Null
             /\ expireSubscriptionGet(d))
            => deliveries'[d].pc = "expireSubscription.updateSubscriptionStatus"
         /\ (/\ deliveries[d].pc = "expireSubscription.updateSubscriptionStatus"
             /\ expireSubscriptionPatch(d))
            => LET id == deliveries[d].subscriptionId IN
               /\ subscriptions'[id].endDate # Null
               /\ subscriptions' =
                     [subscriptions EXCEPT ![id].endDate = subscriptions'[id].endDate]
    ]_vars

\* C3 witness: a third failed attempt has been delivered for a row whose
\* endDate is null, and expireSubscription is about to set it.
C3_Witness ==
    \E d \in Slots :
        /\ deliveries[d].pc = "expireSubscription.updateSubscriptionStatus"
        /\ subscriptions[deliveries[d].subscriptionId].endDate = Null

\* C4 (re-entrant expiry): an "invoice payment failed" event with
\* attempt_count >= 3 for a row whose endDate is already non-null writes
\* nothing: expireSubscription finds the endDate set and returns.
C4_ReentrantExpiry ==
    [][\A d \in Slots :
         (/\ deliveries[d].pc = "expireSubscription.getSubscription"
          /\ subscriptions[deliveries[d].subscriptionId].endDate # Null
          /\ expireSubscriptionGet(d))
         => /\ subscriptions' = subscriptions
            /\ deliveries'[d] = Responded(200)]_vars

\* C4 witness: expireSubscription runs for a row that has already ended, at
\* an instant other than the stored endDate.
C4_Witness ==
    \E d \in Slots :
        /\ deliveries[d].pc = "expireSubscription.getSubscription"
        /\ subscriptions[deliveries[d].subscriptionId].endDate # Null
        /\ subscriptions[deliveries[d].subscriptionId].endDate # Date(now)

\* C5 (cancellation ordering): when the remote cancel call of a cancellation
\* request (admin action or user page) returns success: false, the request
\* ends in failure with the store unchanged, and the failed request writes
\* nothing afterwards.
C5_CancellationOrdering ==
    [][/\ \A o \in CancelOutcomes :
            (o.result = CancelError /\ adminCancelSubscriptionStripe(o))
            => /\ subscriptions' = subscriptions
               /\ adminCancel' = Threw(adminCancel.subscriptionId, StripeCancelError)
       /\ \A id \in 1..MaxSubs, o \in CancelOutcomes :
            (o.result = CancelError /\ handleCancelSubscriptionStripe(id, o))
            => /\ subscriptions' = subscriptions
               /\ userCancel'.pc = "alertError"
       /\ (adminCancel.pc = "threw" /\ adminCancel' # adminCancel)
            => subscriptions' = subscriptions
       /\ (userCancel.pc = "alertError" /\ userCancel' # userCancel)
            => subscriptions' = subscriptions
    ]_vars

\* C5 witness: the admin cancel of a row ended with the remote failure, and
\* the row's endDate is null.
C5_Witness ==
    /\ adminCancel = Threw(1, StripeCancelError)
    /\ Len(subscriptions) >= 1
    /\ subscriptions[1].endDate = Null

\* C6 (no local end while live remotely): in every state, a row that has a
\* Stripe subscription id and a non-null endDate is not live at Stripe, the
\* rows being ended by the cancel operations only.
C6_NoLocalEndWhileRemoteLive ==
    \A i \in 1..Len(subscriptions) :
        (/\ subscriptions[i].endDate # Null
         /\ Truthy(subscriptions[i].stripeSubscriptionId))
        => subscriptions[i].stripeSubscriptionId \notin remoteLive

\* C7 (checkout precondition): createCheckoutSession that read a price whose
\* stripePriceId is null ends by throwing, the "no Stripe price ID" error when
\* the product exists, without a sessions.create call and with every table
\* unchanged; and no session at Stripe was created for a null price id.
C7_CheckoutPrecondition ==
    /\ [](\A i \in 1..Len(sessions) : sessions[i].price # Null)
    /\ [][(/\ checkout.pc = "getProduct"
           /\ Exists(checkout.price)
           /\ checkout.price.stripePriceId = Null
           /\ checkout' # checkout)
          => /\ checkout'.pc = "threw"
             /\ Exists(products[checkout.productId])
                   => checkout'.error = NoStripePriceIdError
             /\ sessions' = sessions
             /\ subscriptions' = subscriptions
             /\ UNCHANGED <<products, productPrices, productSync, priceSync>>
      ]_vars

\* C7 witness: a checkout request has been refused for want of a Stripe
\* price id, and Stripe holds no session.
C7_Witness ==
    /\ checkout = [pc |-> "threw", error |-> NoStripePriceIdError]
    /\ sessions = <<>>

\* C11 (one row per purchase): once the "checkout session completed" event
\* and the "subscription created" event of the one purchase made have both
\* been answered, in either order, exactly one row has the purchase's
\* subscription id.
C11_ExactlyOneRowPerPurchase ==
    (/\ Len(sessions) = 1
     /\ sessions[1].mode = "subscription"
     /\ deliveries[1] = Responded(200)
     /\ deliveries[2] = Responded(200))
    => Cardinality(RowsOf(subscriptions, SessionSubscription(1))) = 1

\* C12 (concurrent creation): in every reachable state, whatever the
\* interleaving of the lookups and inserts of concurrently handled creation
\* events, at most one row carries any given external subscription id.
C12_AtMostOneRowPerStripeId ==
    \A sid \in StripeIds : Cardinality(RowsOf(subscriptions, sid)) <= 1

\* Rows i and j are two active subscriptions of one user for one garage and
\* one product.
SameActiveTriple(i, j) ==
    /\ i # j
    /\ subscriptions[i].userId = subscriptions[j].userId
    /\ subscriptions[i].garageId = subscriptions[j].garageId
    /\ subscriptions[i].productId = subscriptions[j].productId
    /\ subscriptions[i].endDate = Null
    /\ subscriptions[j].endDate = Null

\* C13 (one active subscription per triple): in every reachable state, no
\* two rows with a null endDate share user, garage and product, whatever
\* combination of creation paths produced them.
C13_OneActivePerTriple ==
    \A i, j \in 1..Len(subscriptions) : ~SameActiveTriple(i, j)

\* C19 (rows come from payment events or the admin): every step that adds a
\* Subscription row is the insert of a creation event's handler or the
\* admin's createSubscription.
C19_RowsFromPaymentEventsOrAdmin ==
    [][Len(subscriptions') > Len(subscriptions)
       => \/ \E d \in Slots : createSubscription(d)
          \/ \E u \in Users, g \in Garages, p \in Products, sid \in StripeIds :
                adminCreateSubscription(u, g, p, sid)]_vars

\* C15 (unknown event types): an event whose type has no case in the
\* dispatch table is acknowledged with 200 at once, and no table of the
\* store changes.
C15_UnknownEventAcknowledged ==
    [][\A e \in UnknownEvents :
         (e.type \notin DispatchTable /\ Delivered(1, e))
         => /\ deliveries'[1] = Responded(200)
            /\ subscriptions' = subscriptions
            /\ UNCHANGED catalogVars]_vars

\* C15 witness: an event of unknown type has been acknowledged while the
\* store holds a product and a subscription row.
C15_Witness ==
    /\ deliveries[1] = Responded(200)
    /\ Len(subscriptions) >= 1
    /\ \E p \in Products : Exists(products[p])

\* Metadata m lacks one of the required keys.
LacksRequiredKey(m) ==
    \E k \in {"userId", "garageId", "productId", "priceId"} : m[k] = Missing

\* C16 (incomplete metadata): a creation event that lacks any of the keys
\* userId, garageId, productId, priceId is acknowledged with 200 at once:
\* no row is inserted, no error is raised and the store does not change.
C16_IncompleteMetadataSkipped ==
    [][\A e \in SkippedCreatedEvents :
         (LacksRequiredKey(e.metadata) /\ Delivered(2, e))
         => /\ deliveries'[2] = Responded(200)
            /\ subscriptions' = subscriptions
            /\ UNCHANGED catalogVars]_vars

\* C16 witness: a creation event with incomplete metadata has been
\* acknowledged and the store holds no row.
C16_Witness ==
    /\ deliveries[2] = Responded(200)
    /\ subscriptions = <<>>

\* C17 (frame of "subscription updated"): when the event arrives nothing is
\* written; if the event is not answered at once, the one write it prepares
\* is updateSubscriptionInDb, with an endDate only if the event's status is
\* canceled and the row, as the handler read it, has a null endDate (never
\* for cancel_at_period_end alone, and never a null endDate); that write
\* leaves every other row as it is, changes at most seats and endDate of the
\* matching row, sets the endDate only to the one prepared, and never clears
\* it.
C17_UpdatedEventFrame ==
    [][\A d \in Slots :
         /\ Arrival(d) => subscriptions' = subscriptions
         /\ (Arrival(d) /\ deliveries'[d].pc # "responded") =>
               \A e \in UpdatedEvents :
                  (RowsOf(subscriptions, e.id) # {} /\ Delivered(d, e))
                  => /\ deliveries'[d].pc = "updateSubscriptionInDb"
                     /\ deliveries'[d].endDate # Some(Null)
                     /\ deliveries'[d].endDate # Undefined
                        => /\ e.status = "canceled"
                           /\ subscriptions[deliveries'[d].subscriptionId].endDate = Null
                           /\ deliveries'[d].endDate = Some(Date(e.canceled_at))
         /\ (deliveries[d].pc = "updateSubscriptionInDb" /\ updateSubscriptionInDb(d))
            => LET id == deliveries[d].subscriptionId IN
               /\ Len(subscriptions') = Len(subscriptions)
               /\ \A i \in 1..Len(subscriptions) :
                     i # id => subscriptions'[i] = subscriptions[i]
               /\ [subscriptions'[id] EXCEPT !.seats = 0, !.endDate = Null]
                     = [subscriptions[id] EXCEPT !.seats = 0, !.endDate = Null]
               /\ subscriptions'[id].endDate # subscriptions[id].endDate
                     => /\ subscriptions'[id].endDate # Null
                        /\ deliveries[d].endDate = Some(subscriptions'[id].endDate)
    ]_vars

\* C17 witness: an update event with status canceled has arrived for a row
\* whose endDate is null, and its update is about to be written.
C17_Witness ==
    \E d \in Slots :
        /\ deliveries[d].pc = "updateSubscriptionInDb"
        /\ deliveries[d].endDate # Undefined
        /\ subscriptions[deliveries[d].subscriptionId].endDate = Null

\* C18 (checkout writes no subscription): no step of createCheckoutSession,
\* whether the remote session creation succeeds or fails, creates or changes
\* a Subscription row; a row appears only in the insert that ends the
\* handling of a confirmation event.
C18_CheckoutWritesNoSubscription ==
    [][/\ checkout' # checkout => subscriptions' = subscriptions
       /\ subscriptions' # subscriptions
          => /\ deliveries[1].pc = "createSubscription"
             /\ createSubscription(1)]_vars

\* C18 witness: a checkout failed at Stripe after an earlier one had opened
\* a session, and the store holds no subscription row.
C18_Witness ==
    /\ checkout = [pc |-> "returned", success |-> FALSE]
    /\ Len(sessions) = 1
    /\ subscriptions = <<>>

\* The local tables: what a sync action may or may not mutate.
LocalTablesUnchanged ==
    /\ products' = products
    /\ productPrices' = productPrices
    /\ subscriptions' = subscriptions

\* C20 (outbound catalog sync), for products and for prices alike: the step
\* in which the remote create call returns mutates no local table, and either
\* ends the action (success: false), the record's external id being null
\* still, or goes on to the patch with the id Stripe returned; the patch
\* sets the external id of the record to that id and changes nothing else.
C20_OutboundSync ==
    [][/\ \A p \in Products :
            /\ (productSync[p].pc = "createStripeProduct"
                 /\ productSync'[p] # productSync[p])
               => /\ LocalTablesUnchanged
                  /\ \/ /\ productSync'[p] = NoJob
                        /\ Exists(products[p]) => products'[p].stripeProductId = Null
                     \/ productSync'[p] = [pc |-> "patchProductStripeId",
                                           stripeProductId |-> NewStripeProductId[p]]
            /\ (productSync[p].pc = "patchProductStripeId"
                 /\ productSync'[p] # productSync[p] /\ Exists(products[p]))
               => /\ products' = [products EXCEPT ![p].stripeProductId =
                                        Str(productSync[p].stripeProductId)]
                  /\ productPrices' = productPrices
                  /\ subscriptions' = subscriptions
       /\ \A r \in PriceIds :
            /\ (priceSync[r].pc = "createStripePrice"
                 /\ priceSync'[r] # priceSync[r])
               => /\ LocalTablesUnchanged
                  /\ \/ /\ priceSync'[r] = NoJob
                        /\ Exists(productPrices[r])
                           => productPrices'[r].stripePriceId = Null
                     \/ priceSync'[r] = [pc |-> "patchProductPriceStripeId",
                                         stripePriceId |-> NewStripePriceId[r]]
            /\ (priceSync[r].pc = "patchProductPriceStripeId"
                 /\ priceSync'[r] # priceSync[r] /\ Exists(productPrices[r]))
               => /\ productPrices' = [productPrices EXCEPT ![r].stripePriceId =
                                             Str(priceSync[r].stripePriceId)]
                  /\ products' = products
                  /\ subscriptions' = subscriptions
    ]_vars

\* C20 witness: the sync of one price has written the id Stripe returned,
\* and the sync of another price of the same product, which had its Stripe
\* id from the start, has ended in failure, leaving that price's id null.
C20_Witness ==
    \E r, f \in PriceIds :
        /\ Exists(productPrices[r])
        /\ productPrices[r].stripePriceId = Str(NewStripePriceId[r])
        /\ Exists(productPrices[f])
        /\ productPrices[f].stripePriceId = Null
        /\ priceSync[f] = NoJob
        /\ Exists(products[productPrices[f].productId])
        /\ products[productPrices[f].productId].stripeProductId = Str("prod_ext")

\* C21 (check before create): the remote create call of a sync job is issued
\* only for a record whose external id is null at that moment.
C21_NoCreateWhenIdPresent ==
    [][/\ \A p \in Products :
            (/\ productSync[p].pc = "createStripeProduct"
             /\ productSync'[p] # productSync[p]
             /\ Exists(products[p]))
            => products[p].stripeProductId = Null
       /\ \A r \in PriceIds :
            (/\ priceSync[r].pc = "createStripePrice"
             /\ priceSync'[r] # priceSync[r]
             /\ Exists(productPrices[r]))
            => productPrices[r].stripePriceId = Null]_vars

C23_EventuallySynced ==
    /\ \A p \in Products :
          (/\ Exists(products[p])
           /\ products[p].stripeProductId = Null
           /\ productSync[p] = NoJob)
          ~> (~Exists(products[p]) \/ products[p].stripeProductId # Null)
    /\ \A r \in PriceIds :
          (/\ Exists(productPrices[r])
           /\ productPrices[r].stripePriceId = Null
           /\ priceSync[r] = NoJob)
          ~> (~Exists(productPrices[r]) \/ productPrices[r].stripePriceId # Null)

\* C24 (single writer): a step that changes the external id of a product or
\* of a price is the patch of the record's sync job, and a step that changes
\* the endDate of a subscription is the write of a webhook handler or of a
\* cancellation that called Stripe first.
C24_SingleWriter ==
    [][/\ \A p \in Products :
            (/\ Exists(products[p]) /\ Exists(products'[p])
             /\ products'[p].stripeProductId # products[p].stripeProductId)
            => patchProductStripeId(p)
       /\ \A r \in PriceIds :
            (/\ Exists(productPrices[r]) /\ Exists(productPrices'[r])
             /\ productPrices'[r].stripePriceId # productPrices[r].stripePriceId)
            => patchProductPriceStripeId(r)
       /\ \A i \in 1..Len(subscriptions) :
            (/\ i <= Len(subscriptions')
             /\ subscriptions'[i].endDate # subscriptions[i].endDate)
            => \/ \E d \in Slots : \/ updateSubscriptionInDb(d)
                                    \/ updateSubscriptionStatus(d)
                                    \/ expireSubscriptionPatch(d)
               \/ adminCancelSubscriptionPatch
               \/ handleCancelSubscriptionMutation]_vars

\* C25 (deleteProduct on a referenced product): while any subscription,
\* ended or active, refers to a product, no step deletes the product, and a
\* price of the product disappears only by deleteProductPrice.  (A mutation
\* that does not delete has thrown: deleteProduct returns only after the
\* deletes.)
C25_ReferencedProductKept ==
    [][\A p \in Products :
         (/\ Exists(products[p])
          /\ \E i \in 1..Len(subscriptions) : subscriptions[i].productId = p)
         => /\ Exists(products'[p])
            /\ \A r \in PriceIds :
                 (/\ Exists(productPrices[r])
                  /\ productPrices[r].productId = p
                  /\ ~Exists(productPrices'[r]))
                 => deleteProductPrice(r)]_vars

\* C25 witness: a product with a price is referenced by ended subscriptions
\* only.
C25_Witness ==
    \E p \in Products :
        /\ Exists(products[p])
        /\ \E r \in PriceIds : Exists(productPrices[r]) /\ productPrices[r].productId = p
        /\ \E i \in 1..Len(subscriptions) : subscriptions[i].productId = p
        /\ \A i \in 1..Len(subscriptions) :
              subscriptions[i].productId = p => subscriptions[i].endDate # Null

\* C26 (idempotence under redelivery): in every store state, for every event
\* of a handled type, handling the event and then handling it again, at the
\* same or at a later instant, leaves the store exactly as the first
\* handling left it: the same rows, the same endDate and seats.
C26_RedeliveryIdempotent ==
    \A e \in Events :
        e.type \in DispatchTable =>
            LET once == ProcessEvent(e, subscriptions, now) IN
            \A t \in now..MaxClock : ProcessEvent(e, once, t) = once

\* C26 witness: a store with a row that an "invoice payment failed" event
\* would expire and that a "subscription updated" event would give other
\* seats: the first handling changes the store.
C26_Witness ==
    /\ \E e \in InvoicePaymentFailedEvents :
          ProcessEvent(e, subscriptions, now) # subscriptions
    /\ \E e \in UpdatedEvents :
          ProcessEvent(e, subscriptions, now) # subscriptions
    /\ now < MaxClock

\* C30 (deleted event): a "subscription deleted" event whose id has no row is
\* answered 200 and writes nothing; for a row whose endDate is non-null it is
\* answered 200 and writes nothing; for a row whose endDate is null it calls
\* updateSubscriptionStatus with the date of canceled_at, and that mutation
\* sets the endDate of this row to that date and changes nothing else.
C30_DeletedEvent ==
    [][\A d \in Slots :
         /\ Arrival(d) =>
              \A e \in DeletedEvents :
                 Delivered(d, e) =>
                    LET rows == RowsOf(subscriptions, e.id) IN
                    /\ subscriptions' = subscriptions
                    /\ rows = {} => deliveries'[d] = Responded(200)
                    /\ \A i \in rows :
                          (\A j \in rows : i <= j) =>
                             IF subscriptions[i].endDate = Null
                             THEN deliveries'[d] =
                                     [pc |-> "updateSubscriptionStatus",
                                      endDate |-> Date(e.canceled_at),
                                      subscriptionId |-> i]
                             ELSE deliveries'[d] = Responded(200)
         /\ (/\ deliveries[d].pc = "updateSubscriptionStatus"
             /\ updateSubscriptionStatus(d))
            => LET id == deliveries[d].subscriptionId IN
               /\ deliveries[d].endDate # Null
               /\ subscriptions' =
                     [subscriptions EXCEPT ![id].endDate = deliveries[d].endDate]
               /\ deliveries'[d] = Responded(200)
    ]_vars

\* C30 witness: a deleted event has been delivered for a row whose endDate
\* is null and is about to set it, while another row has ended already.
C30_Witness ==
    \E d \in Slots :
        /\ deliveries[d].pc = "updateSubscriptionStatus"
        /\ subscriptions[deliveries[d].subscriptionId].endDate = Null
        /\ \E j \in 1..Len(subscriptions) : subscriptions[j].endDate # Null

\* C31 (checkout mode): the session createCheckoutSession asks Stripe for has
\* mode "subscription" when the product's type is monthly, weekly or
\* annual, and mode "payment" for every other type.
C31_CheckoutMode ==
    [][(createCheckoutSessionGetProduct /\ checkout'.pc = "sessions.create")
       => LET type == products[checkout.productId].type IN
          /\ type \in {"monthly", "weekly", "annual"}
             => checkout'.request.mode = "subscription"
          /\ type \notin {"monthly", "weekly", "annual"}
             => checkout'.request.mode = "payment"]_vars

\* C31 witness: a session in mode "subscription" is being requested for a
\* weekly product.
C31_Witness ==
    /\ checkout.pc = "sessions.create"
    /\ products[checkout.request.metadata.productId].type = "weekly"
    /\ checkout.request.mode = "subscription"

\* C32 (mode agrees with recurrence): a checkout session requested for a
\* price that Stripe holds as the price created for this local price has
\* mode "subscription" exactly when that price was created as recurring.
C32_ModeAgreesWithRecurrence ==
    checkout.pc = "sessions.create" =>
        LET r == checkout.request.metadata.priceId IN
        (/\ Exists(stripePrices[r])
         /\ checkout.request.price = Str(NewStripePriceId[r]))
        => (checkout.request.mode = "subscription"
               <=> stripePrices[r].recurring # Undefined)

Quiescent ==
    /\ updateJobs = {}
    /\ stripeOutbox = {}
    /\ \A d \in Slots :
          deliveries[d].pc \notin {"updateProductFromStripe", "updatePriceFromStripe"}

C38_ExternalIdPreserved ==
    [][/\ \A p \in Products :
            (/\ Exists(products[p]) /\ products[p].stripeProductId # Null
             /\ products'[p] # products[p])
            => products'[p].stripeProductId = products[p].stripeProductId
       /\ \A r \in PriceIds :
            (/\ Exists(productPrices[r]) /\ productPrices[r].stripePriceId # Null
             /\ productPrices'[r] # productPrices[r])
            => productPrices'[r].stripePriceId = productPrices[r].stripePriceId]_vars

\* C38 witness: the admin has deactivated a product and one of its prices,
\* the handler of the price's "updated" event has written its placeholder
\* amount, and both still have their external ids.
C38_Witness ==
    \E p \in Products, r \in PriceIds :
        /\ Exists(products[p]) /\ Exists(productPrices[r])
        /\ ~products[p].isActive
        /\ products[p].stripeProductId = Str("prod_ext")
        /\ productPrices[r].amount = PlaceholderAmount
        /\ productPrices[r].stripePriceId = Str("price_ext")

\* C36 (cancellation racing its webhook): when the remote cancel of a
\* cancellation request has succeeded, the request's local write, whether it
\* comes before or after the write of the "subscription deleted" event's
\* handler, leaves the row with a non-null endDate and the request ends in
\* success.
C36_CancelRacesWebhook ==
    [][/\ (adminCancel.pc = "updateSubscriptionEndDate" /\ adminCancelSubscriptionPatch)
          => /\ subscriptions'[adminCancel.subscriptionId].endDate # Null
             /\ adminCancel'.pc = "returned"
       /\ (userCancel.pc = "cancelSubscription" /\ handleCancelSubscriptionMutation)
          => /\ subscriptions'[userCancel.subscriptionId].endDate # Null
             /\ userCancel'.pc = "alertSuccess"]_vars

\* C37 (cancelling an ended subscription): a cancellation request for a row
\* whose endDate is not null makes no remote cancel call, and no write of a
\* cancellation request changes an endDate that is not null.
C37_CancelEndedIsNoOp ==
    [][/\ \A id \in 1..Len(subscriptions) :
            (subscriptions[id].endDate # Null /\ adminCancelSubscriptionQuery(id))
            => adminCancel'.pc # "cancelStripeSubscription"
       /\ (/\ adminCancel.pc = "updateSubscriptionEndDate"
           /\ getSubscriptionById(subscriptions, adminCancel.subscriptionId) # NoDoc
           /\ subscriptions[adminCancel.subscriptionId].endDate # Null
           /\ adminCancelSubscriptionPatch)
          => subscriptions' = subscriptions
       /\ (/\ userCancel.pc = "cancelSubscription"
           /\ subscriptions[userCancel.subscriptionId].endDate # Null
           /\ handleCancelSubscriptionMutation)
          => subscriptions' = subscriptions]_vars

\* What the store says of subscription sid: no row, an active row (endDate
\* null) or an ended row.
Outcome(rows, sid) ==
    LET found == findSubscriptionByStripeId(rows, sid) IN
    IF Len(found) = 0 THEN "none"
    ELSE IF rows[found[1]].endDate = Null THEN "active" ELSE "ended"

\* C27 (re-ordering safety): in every store state, two events of handled
\* types that concern the same external subscription id leave the same
\* outcome for that id (no row, active row, ended row) in whichever order
\* they are handled.
C27_ReorderingSafe ==
    \A e1, e2 \in Events :
        (/\ e1.type \in DispatchTable
         /\ e2.type \in DispatchTable
         /\ e1.id = e2.id)
        => Outcome(ProcessEvent(e2, ProcessEvent(e1, subscriptions, now), now), e1.id)
           = Outcome(ProcessEvent(e1, ProcessEvent(e2, subscriptions, now), now), e1.id)

\* C28 (failed mutation is not acknowledged): a request that waits for a
\* mutation of its handler is answered 200 only in the step that commits
\* that mutation, and when the mutation fails it is answered 500 with the
\* store unchanged.
C28_NoAckWithoutCommit ==
    [][\A d \in Slots :
         MutationPending(d) =>
            /\ deliveries'[d] = Responded(200)
               => subscriptions' = Commit(deliveries[d], subscriptions, now)
            /\ subscriptions' # Commit(deliveries[d], subscriptions, now)
               => deliveries'[d] \in {deliveries[d], Responded(500)}
            /\ deliveries'[d] = Responded(500) => subscriptions' = subscriptions]_vars

\* C28 witness: the insert of a creation event has failed, and so has the
\* patch of a deletion event: both are answered 500, no row has been
\* inserted since and no row has an endDate.
C28_Witness ==
    /\ deliveries[1] = Responded(500)
    /\ deliveries[2] = Responded(500)
    /\ Len(subscriptions) = 1
    /\ subscriptions[1].endDate = Null
    /\ subscriptions[1].stripeSubscriptionId = "sub_B"

\* C29 (eventual creation): the creation event of sub_A being sent until it
\* is answered 200, a row with stripeSubscriptionId sub_A and a null endDate
\* eventually exists.
C29_EventuallyCreated ==
    <>(\E i \in 1..Len(subscriptions) :
          /\ subscriptions[i].stripeSubscriptionId = "sub_A"
          /\ subscriptions[i].endDate = Null)

\* C29 witness: the insert of the creation event of sub_A has failed, the
\* event was answered 500, and no row of sub_A exists yet.
C29_Witness ==
    /\ deliveries[1] = Responded(500)
    /\ RowsOf(subscriptions, "sub_A") = {}

\* The signature header of request r is present and is not Stripe's signature
\* of r's body.
Mismatch(r) ==
    /\ r.signature # NoSignature
    /\ r.signature # Hmac(r.body, StripeSigningSecret)

\* The request r that slot d takes in this step.
Requested(d, r) == WebhookEndpoint(d, r.signature, r.body)

\* The request of slot d is refused before the event router runs.
RejectedAtBoundary(d) ==
    /\ deliveries'[d].pc = "responded"
    /\ deliveries'[d].status # 200
    /\ subscriptions' = subscriptions

\* C8 (signature rejection): a request whose body does not match its
\* signature header is answered with 400; the router is not invoked and the
\* store is not changed.
C8_SignatureRejection ==
    [][\A d \in Slots :
         Arrival(d) =>
            \A r \in HttpRequests :
               (Mismatch(r) /\ Requested(d, r))
               => /\ deliveries'[d] = Responded(400)
                  /\ subscriptions' = subscriptions]_vars

\* C9 (unauthenticated requests): a request without a signature header, or
\* one that arrives when no signing secret is configured, is refused before
\* the event router runs.
C9_UnauthenticatedNeverRouted ==
    [][\A d \in Slots :
         Arrival(d) =>
            \A r \in HttpRequests :
               (/\ r.signature = NoSignature \/ webhookSecret = NoSecret
                /\ Requested(d, r))
               => RejectedAtBoundary(d)]_vars

\* stripe.webhooks.constructEvent accepts request r under the configured
\* signing secret.
SignatureVerifies(r) ==
    /\ webhookSecret # NoSecret
    /\ constructEvent(r.body, r.signature, webhookSecret)

\* C14 (one response per request): a request whose signature verifies is
\* handed to the router and answered 200 once the router resolved, or 500
\* when the router call raised; every other request is answered 400 at once,
\* and a 400 is given to no request whose signature verifies.
C14_ResponseBySignature ==
    [][\A d \in Slots :
         Arrival(d) =>
            \A r \in HttpRequests :
               Requested(d, r)
               => IF SignatureVerifies(r)
                  THEN deliveries'[d] \in {Responded(200), Responded(500)}
                       \/ deliveries'[d].pc \notin {"idle", "responded"}
                  ELSE deliveries'[d] = Responded(400)]_vars

\* C10 (metadata-driven reconciliation): a "checkout session completed"
\* event with metadata {userId, garageId, productId, priceId, seats: "2"} for
\* a subscription that has no row yet makes the handler insert the row
\* {userId, garageId, productId, seats: 2, endDate: null}.
C10_CheckoutCompletedCreatesRow ==
    [][\A d \in Slots :
         Arrival(d) =>
            \A e \in CheckoutCompletedEvents :
               (RowsOf(subscriptions, e.id) = {} /\ Delivered(d, e))
               => /\ deliveries'[d].pc = "createSubscription"
                  /\ InsertSubscription(subscriptions, deliveries'[d]) =
                        Append(subscriptions,
                               [seats |-> 2,
                                stripeSubscriptionId |-> e.id,
                                userId |-> e.metadata.userId,
                                garageId |-> e.metadata.garageId,
                                productId |-> e.metadata.productId,
                                endDate |-> Null])]_vars


\* C39 (seat round-trip): a "subscription created" event that carries the
\* metadata createCheckoutSession wrote for a session makes the handler ask
\* for a row whose seats is the quantity passed to createCheckoutSession; the
\* same event without a seats value makes it ask for 1 seat; and
\* createSubscription stores the seats it was asked for.
C39_SeatRoundTrip ==
    [][/\ \A d \in Slots, i \in 1..MaxSessions :
            (Arrival(d) /\ DeliverSeatEvent(d, i)
                /\ deliveries'[d].pc = "createSubscription")
            => deliveries'[d].seats = sessions[i].quantity
       /\ \A d \in Slots, i \in 1..MaxSessions :
            (Arrival(d) /\ DeliverNoSeatEvent(d, i)
                /\ deliveries'[d].pc = "createSubscription")
            => deliveries'[d].seats = 1
       /\ \A d \in Slots :
            (deliveries[d].pc = "createSubscription"
                /\ deliveries'[d] = Responded(200))
            => /\ Len(subscriptions') = Len(subscriptions) + 1
               /\ subscriptions'[Len(subscriptions')].seats = deliveries[d].seats
               /\ \A k \in 1..Len(subscriptions) :
                     subscriptions'[k] = subscriptions[k]]_vars

\* Two rows of two sessions: one holds the two-digit quantity of its session,
\* the other the default although its session asked for more seats.
C39_Witness ==
    /\ Len(sessions) = 2 /\ Len(subscriptions) = 2
    /\ sessions[1].quantity = 12 /\ sessions[1].metadata.seats = <<"1", "2">>
    /\ sessions[2].quantity = 2
    /\ \E k \in 1..2 : /\ subscriptions[k].stripeSubscriptionId = "sub_A"
                        /\ subscriptions[k].seats = 12
    /\ \E k \in 1..2 : /\ subscriptions[k].stripeSubscriptionId = "sub_B"
                        /\ subscriptions[k].seats = 1
====
